---- MODULE Spec2Model ----
(***************************************************************************)
(* A model of the k8s-mcp-server core: the MCP command handler             *)
(* (Handler.HandleCommand and its seven per-kind handlers), the log        *)
(* retrieval loop (LogManager.GetLogs), the log line parser                *)
(* (parseLogEntry), the exporters (LogManager.ExportLogs), the resource    *)
(* client (Client, getGroupVersionResource) and the response constructors. *)
(* Spec runs one command at a time through the handler; SpecParse,         *)
(* SpecExport, SpecClient and SpecGetLogs call one function on its own;    *)
(* SpecConc runs several calls of HandleCommand concurrently.              *)
(*                                                                         *)
(* Go strings are modelled as sequences of one-character strings, so that  *)
(* the regular expressions, the trimming and the case folding of the code  *)
(* act on characters.  The library functions the code calls (regexp,       *)
(* time.Parse, time.ParseDuration, strings) are modelled on the subset of  *)
(* their input language the model's inputs are drawn from.                 *)
(***************************************************************************)
EXTENDS Integers, Sequences, FiniteSets, TLC

VARIABLES
    pc,          \* position of the handler: idle, open, compile, read, ret, done
    cmd,         \* the command envelope being handled
    opts,        \* logs.LogOptions built by the log handlers
    resp,        \* the Response returned by HandleCommand
    calls,       \* the backend calls made while handling cmd, in order
    stream,      \* what is left of the opened log stream
    streamOpen,  \* whether a log stream is open
    closes,      \* how many times the stream of this request was closed
    re,          \* the compiled pattern of GetLogs
    logEntries,  \* the entries GetLogs has accumulated
    reads,       \* how many reads of the stream GetLogs has made
    ret,         \* what GetLogs returned to the handler
    tasks,       \* the commands in flight when HandleCommand is called concurrently
    now,         \* the wall clock
    pin,         \* a function called on its own: the arguments
    pout         \* a function called on its own: the result

vars == <<pc, cmd, opts, resp, calls, stream, streamOpen, closes, re,
          logEntries, reads, ret, tasks, now, pin, pout>>

handlerVars == <<pc, cmd, opts, resp, calls, stream, streamOpen, closes, re,
                 logEntries, reads, ret, tasks>>

(***************************************************************************)
(* Bounds of the model.                                                    *)
(***************************************************************************)
MaxPieces == 3

MaxLines == 2

MaxClock == 1

\* the longest []LogEntry handed to ExportLogs on its own
MaxEntries == 2

(***************************************************************************)
(* Characters and strings.                                                 *)
(***************************************************************************)
LowerAlpha ==
    <<"a","b","c","d","e","f","g","h","i","j","k","l","m",
      "n","o","p","q","r","s","t","u","v","w","x","y","z">>

UpperAlpha ==
    <<"A","B","C","D","E","F","G","H","I","J","K","L","M",
      "N","O","P","Q","R","S","T","U","V","W","X","Y","Z">>

DigitChars == <<"0","1","2","3","4","5","6","7","8","9">>

Range(s) == {s[i] : i \in DOMAIN s}

Digits == Range(DigitChars)

LowerLetters == Range(LowerAlpha)

UpperLetters == Range(UpperAlpha)

\* the value of each digit, and the other case of each letter
DigitValOf == [c \in Digits |-> (CHOOSE i \in DOMAIN DigitChars : DigitChars[i] = c) - 1]

UpperOf ==
    [c \in LowerLetters |-> UpperAlpha[CHOOSE i \in DOMAIN LowerAlpha : LowerAlpha[i] = c]]

LowerOf ==
    [c \in UpperLetters |-> LowerAlpha[CHOOSE i \in DOMAIN UpperAlpha : UpperAlpha[i] = c]]

IsDigit(c) == c \in Digits

DigitVal(c) == DigitValOf[c]

IsLower(c) == c \in LowerLetters

IsUpper(c) == c \in UpperLetters

\* regexp's \w of the \b assertion: [0-9A-Za-z_]
IsWordChar(c) == IsDigit(c) \/ IsLower(c) \/ IsUpper(c) \/ c = "_"

\* unicode.IsSpace on the characters of the model
IsSpace(c) == c \in {" ", "\t", "\n", "\r", "\f"}

ToUpperChar(c) == IF IsLower(c) THEN UpperOf[c] ELSE c

ToLowerChar(c) == IF IsUpper(c) THEN LowerOf[c] ELSE c

\* strings.ToUpper
ToUpper(s) == [i \in DOMAIN s |-> ToUpperChar(s[i])]

\* strings.ToLower
ToLower(s) == [i \in DOMAIN s |-> ToLowerChar(s[i])]

\* strings.EqualFold
EqualFold(s, t) == ToLower(s) = ToLower(t)

MinOf(S) == CHOOSE x \in S : \A y \in S : x <= y

MaxOf(S) == CHOOSE x \in S : \A y \in S : y <= x

\* strings.TrimSpace: the line without its leading and trailing white space
TrimSpace(s) ==
    LET keep == {i \in DOMAIN s : ~IsSpace(s[i])}
    IN  IF keep = {} THEN <<>> ELSE SubSeq(s, MinOf(keep), MaxOf(keep))

\* whether t occurs in s at position i
OccursAt(s, t, i) ==
    /\ i >= 1
    /\ i + Len(t) - 1 <= Len(s)
    /\ SubSeq(s, i, i + Len(t) - 1) = t

\* strings.Contains
Contains(s, t) == \E i \in 1..(Len(s) + 1) : OccursAt(s, t, i)

TsLen == 19

LevelWords ==
    << <<"i","n","f","o">>, <<"e","r","r","o","r">>, <<"w","a","r","n">>,
       <<"d","e","b","u","g">>, <<"f","a","t","a","l">> >>

(***************************************************************************)
(* parseLogEntry.                                                          *)
(***************************************************************************)

\* the pattern \d{4}-\d{2}-\d{2}T\d{2}:\d{2}:\d{2} on a string of 19 characters
IsDateTime(t) ==
    /\ Len(t) = TsLen
    /\ \A i \in 1..TsLen :
          CASE i \in {5, 8}   -> t[i] = "-"
            [] i = 11         -> t[i] = "T"
            [] i \in {14, 17} -> t[i] = ":"
            [] OTHER          -> IsDigit(t[i])

\* timestampRegex.FindString(line): the leftmost match, or "" when there is none
FindTimestamp(line) ==
    LET at == {i \in 1..(Len(line) - TsLen + 1) :
                   IsDateTime(SubSeq(line, i, i + TsLen - 1))}
    IN  IF at = {} THEN <<>>
        ELSE SubSeq(line, MinOf(at), MinOf(at) + TsLen - 1)

TwoDigits(t, i) == 10 * DigitVal(t[i]) + DigitVal(t[i + 1])

\* the numeric time zone of RFC3339: +hh:mm or -hh:mm
IsZoneOffset(z) ==
    /\ Len(z) = 6
    /\ z[1] \in {"+", "-"}
    /\ IsDigit(z[2]) /\ IsDigit(z[3]) /\ z[4] = ":"
    /\ IsDigit(z[5]) /\ IsDigit(z[6])

\* time.Parse(time.RFC3339, value) succeeds: the layout is
\* 2006-01-02T15:04:05Z07:00, so a date-time must be followed by a time zone,
\* Z or a numeric offset (fractional seconds are outside the model's inputs)
TimeParseOk(value) ==
    /\ Len(value) > TsLen
    /\ IsDateTime(SubSeq(value, 1, TsLen))
    /\ TwoDigits(value, 6) \in 1..12
    /\ TwoDigits(value, 9) \in 1..31
    /\ TwoDigits(value, 12) \in 0..23
    /\ TwoDigits(value, 15) \in 0..59
    /\ TwoDigits(value, 18) \in 0..59
    /\ LET zone == SubSeq(value, TsLen + 1, Len(value))
       IN  zone = <<"Z">> \/ IsZoneOffset(zone)

\* a time.Time: the wall clock read at some moment, or a parsed date-time
ClockTime(t) == [src |-> "clock", at |-> t, text |-> <<>>]

ParsedTime(value) ==
    [src |-> "parsed", at |-> 0, text |-> SubSeq(value, 1, TsLen)]

\* WordBoundary without the assertion: the pattern without its two \b
WordBoundaryDropped(line, i) == TRUE

\* the regexp assertion \b between the characters i-1 and i of line
WordBoundary(line, i) ==
    LET before == i - 1 \in DOMAIN line /\ IsWordChar(line[i - 1])
        after  == i \in DOMAIN line /\ IsWordChar(line[i])
    IN  before # after

\* (?i)\b(info|error|warn|debug|fatal)\b matches word k at position i
LevelAt(line, k, i) ==
    /\ i + Len(LevelWords[k]) - 1 <= Len(line)
    /\ WordBoundary(line, i)
    /\ WordBoundary(line, i + Len(LevelWords[k]))
    /\ EqualFold(SubSeq(line, i, i + Len(LevelWords[k]) - 1), LevelWords[k])

\* logLevelRegex.FindString(line): the leftmost match, the first alternative
\* at that place, or "" when there is none
FindLevel(line) ==
    LET at == {i \in DOMAIN line : \E k \in DOMAIN LevelWords : LevelAt(line, k, i)}
    IN  IF at = {} THEN <<>>
        ELSE LET i == MinOf(at)
                 k == MinOf({j \in DOMAIN LevelWords : LevelAt(line, j, i)})
             IN  SubSeq(line, i, i + Len(LevelWords[k]) - 1)

\* the timestamp of parseLogEntry: time.Now(), replaced by the date-time found
\* in the line when time.Parse accepts the matched text
ExtractTimestamp(line, t) ==
    LET match == FindTimestamp(line)
    IN  IF match # <<>> /\ TimeParseOk(match) THEN ParsedTime(match)
        ELSE ClockTime(t)

\* the log level of parseLogEntry
ExtractLevel(line) ==
    LET match == FindLevel(line)
    IN  IF match # <<>> THEN ToUpper(match) ELSE <<>>

parseLogEntry(line, pod, container, namespace, t) ==
    [timestamp |-> ExtractTimestamp(line, t),
     message   |-> TrimSpace(line),
     pod       |-> pod,
     container |-> container,
     namespace |-> namespace,
     logLevel  |-> ExtractLevel(line)]

(***************************************************************************)
(* Inputs of parseLogEntry called on its own: lines made of up to          *)
(* MaxPieces pieces, and the two lines of the documentation.               *)
(***************************************************************************)
DateTimeText ==
    <<"2","0","2","4","-","0","1","-","0","1","T","1","0",":","0","0",":","0","0">>

Pieces ==
    { <<"i","n","f","o">>, <<"E","R","R","O","R">>, <<"W","a","r","n">>,
      <<"x">>, <<" ">>, <<"_">>, <<"\n">>, <<"Z">>, DateTimeText }

RECURSIVE PieceLines(_)
PieceLines(n) ==
    IF n = 0 THEN {<<>>}
    ELSE LET shorter == PieceLines(n - 1)
         IN  shorter \cup {l \o p : l \in shorter, p \in Pieces}

DocLineInfo ==
    DateTimeText \o <<" ","I","N","F","O"," ","s","t","a","r","t","i","n","g">>

DocLineError ==
    <<"n","o"," ","t","i","m","e","s","t","a","m","p"," ","h","e","r","e"," ",
      "E","R","R","O","R"," ","f","a","i","l","e","d">>

ParseLines == PieceLines(MaxPieces) \cup {DocLineInfo, DocLineError}

ParseArgs ==
    [line : ParseLines, pod : {"p1", ""}, container : {"c"}, namespace : {"ns"}]

NoEntry ==
    [timestamp |-> ClockTime(0), message |-> <<>>, pod |-> "",
     container |-> "", namespace |-> "", logLevel |-> <<>>]

NoParse == [done |-> FALSE, entry |-> NoEntry, at |-> 0]

(***************************************************************************)
(* Errors and responses (pkg/mcp/protocol.go).                             *)
(*                                                                         *)
(* An error is the tuple of its format string and its arguments; the nil   *)
(* error is the empty tuple.                                               *)
(***************************************************************************)
NoError == <<>>

\* err.Error() is the empty string
ErrorIsEmpty(err) == err = <<>> \/ err[1] = ""

\* json.Marshal(data) of NewSuccessResponse: a nil slice of entries is
\* marshalled as null, any other value as its document
JsonMarshal(data) ==
    IF data[1] = "entries" /\ data[2] = <<>> THEN <<"null">>
    ELSE <<"json", data>>

NoData == <<>>

NoResponse == [set |-> FALSE, success |-> FALSE, message |-> <<>>,
               data |-> NoData, error |-> NoError]

\* NewSuccessResponse without its nil check: nil data is marshalled too
NewSuccessResponseAlwaysData(message, data) ==
    [set     |-> TRUE,
     success |-> TRUE,
     message |-> message,
     data    |-> IF data # <<>> THEN JsonMarshal(data) ELSE <<"null">>,
     error   |-> NoError]

\* NewSuccessResponse(message, data); data is <<>> for the nil interface
NewSuccessResponse(message, data) ==
    [set     |-> TRUE,
     success |-> TRUE,
     message |-> message,
     data    |-> IF data # <<>> THEN JsonMarshal(data) ELSE NoData,
     error   |-> NoError]

\* NewErrorResponse(err)
NewErrorResponse(err) ==
    [set     |-> TRUE,
     success |-> FALSE,
     message |-> <<>>,
     data    |-> NoData,
     error   |-> err]

(***************************************************************************)
(* Command envelopes (pkg/mcp/protocol.go).                                *)
(***************************************************************************)
ListCommand == "list"

GetCommand == "get"

CreateCommand == "create"

DeleteCommand == "delete"

LogsCommand == "logs"

SearchLogsCommand == "search_logs"

ExportLogsCommand == "export_logs"

NoLogOptions ==
    [pod |-> "", container |-> "", since |-> <<>>, tail |-> 0,
     pattern |-> <<>>, logLevel |-> <<>>, format |-> <<>>]

\* json.RawMessage: nil, or the bytes of the data member
NilData == [isNil |-> TRUE, raw |-> <<>>]

RawData(raw) == [isNil |-> FALSE, raw |-> raw]

NoCommand ==
    [type |-> "", resource |-> "", name |-> "", namespace |-> "",
     data |-> NilData, hasLogOptions |-> FALSE, logOptions |-> NoLogOptions]

SinceDuration == <<"5","m">>

SinceTimestamp == DateTimeText \o <<"Z">>

PatternFail == <<"f","a","i","l">>

PatternOpen == <<"(">>

LevelError == <<"e","r","r","o","r">>

FormatJSON == <<"J","S","O","N">>

FormatXml == <<"x","m","l">>

\* the envelopes of the resource commands and of the unknown kinds
ResourceCommands ==
    { [type |-> t, resource |-> r, name |-> n, namespace |-> ns, data |-> d,
       hasLogOptions |-> FALSE, logOptions |-> NoLogOptions] :
        t \in {ListCommand, GetCommand, CreateCommand, DeleteCommand, "", "patch"},
        r \in {"", "pods", "Pods"},
        n \in {"", "web"},
        ns \in {"", "ns"},
        d \in {NilData, RawData(<<"{", "}">>), RawData(<<"[", "]">>),
               RawData(<<"n", "u", "l", "l">>)} }

LogOptionValues ==
    [pod : {"", "p1"}, container : {"c"},
     since : {<<>>, SinceDuration, SinceTimestamp, DateTimeText},
     tail : {0, 5},
     pattern : {<<>>, PatternFail, PatternOpen},
     logLevel : {<<>>, LevelError},
     format : {<<>>, FormatJSON, FormatXml}]

\* the envelopes of the log commands
LogCommands ==
    { [type |-> t, resource |-> "", name |-> "", namespace |-> ns,
       data |-> NilData, hasLogOptions |-> TRUE, logOptions |-> lo] :
        t \in {LogsCommand, SearchLogsCommand, ExportLogsCommand},
        ns \in {"", "ns"},
        lo \in LogOptionValues }
    \cup
    { [type |-> t, resource |-> "", name |-> "", namespace |-> "ns",
       data |-> NilData, hasLogOptions |-> FALSE, logOptions |-> NoLogOptions] :
        t \in {LogsCommand, SearchLogsCommand, ExportLogsCommand, "tail_logs"} }

Commands == ResourceCommands \cup LogCommands

(***************************************************************************)
(* The resource client (pkg/kubernetes/client.go).                         *)
(***************************************************************************)
resourceMap ==
    [pods                   |-> <<"", "v1", "pods">>,
     services               |-> <<"", "v1", "services">>,
     deployments            |-> <<"apps", "v1", "deployments">>,
     namespaces             |-> <<"", "v1", "namespaces">>,
     configmaps             |-> <<"", "v1", "configmaps">>,
     secrets                |-> <<"", "v1", "secrets">>,
     persistentvolumes      |-> <<"", "v1", "persistentvolumes">>,
     persistentvolumeclaims |-> <<"", "v1", "persistentvolumeclaims">>,
     statefulsets           |-> <<"apps", "v1", "statefulsets">>,
     daemonsets             |-> <<"apps", "v1", "daemonsets">>,
     ingresses              |-> <<"networking.k8s.io", "v1", "ingresses">>]

NoGVR == <<"", "", "">>

\* getGroupVersionResource looking the kind up without regard to letter-case
getGroupVersionResourceFolded(resourceType) ==
    LET folded == IF resourceType \in {"Pods", "PODS"} THEN "pods"
                  ELSE resourceType
    IN  IF folded \in DOMAIN resourceMap
        THEN [gvr |-> resourceMap[folded], err |-> NoError]
        ELSE [gvr |-> NoGVR,
              err |-> <<"unsupported resource type: %s", resourceType>>]

getGroupVersionResource(resourceType) ==
    IF resourceType \in DOMAIN resourceMap
    THEN [gvr |-> resourceMap[resourceType], err |-> NoError]
    ELSE [gvr |-> NoGVR,
          err |-> <<"unsupported resource type: %s", resourceType>>]

NoPodLogOptions ==
    [container |-> "", sinceTime |-> ClockTime(0), hasSinceTime |-> FALSE,
     sinceSeconds |-> 0, hasSinceSeconds |-> FALSE, tailLines |-> 0,
     hasTailLines |-> FALSE, follow |-> FALSE]

\* A log stream: its lines that end with a newline, the characters after the
\* last newline, and whether reading past them fails instead of ending.
NoStream == [lines |-> <<>>, frag |-> <<>>, fail |-> FALSE]

\* one call to the backend: the dynamic client's Get, List, Create or Delete,
\* or the opening of a pod's log stream; with the backend's answer
BackendCall(op, gvr, namespace, name, answer) ==
    [op |-> op, gvr |-> gvr, namespaced |-> namespace # "",
     namespace |-> namespace, name |-> name, logOptions |-> NoPodLogOptions,
     answer |-> answer, body |-> NoStream]

BackendOutcomes == {"ok", "error"}

BackendError == <<"backend", "unavailable">>

\* GetResource(resourceType, namespace, name), the backend answering outcome
GetResource(resourceType, namespace, name, outcome) ==
    LET r == getGroupVersionResource(resourceType)
        call == BackendCall("Get", r.gvr, namespace, name, outcome)
    IN  IF r.err # NoError THEN [calls |-> <<>>, value |-> <<>>, err |-> r.err]
        ELSE IF outcome = "error"
        THEN [calls |-> <<call>>, value |-> <<>>,
              err |-> <<"failed to get %s '%s': %v", resourceType, name, BackendError>>]
        ELSE [calls |-> <<call>>, value |-> <<"resource", resourceType, name>>,
              err |-> NoError]

\* ListResources(resourceType, namespace)
ListResources(resourceType, namespace, outcome) ==
    LET r == getGroupVersionResource(resourceType)
        call == BackendCall("List", r.gvr, namespace, "", outcome)
    IN  IF r.err # NoError THEN [calls |-> <<>>, value |-> <<>>, err |-> r.err]
        ELSE IF outcome = "error"
        THEN [calls |-> <<call>>, value |-> <<>>,
              err |-> <<"failed to list %s: %v", resourceType, BackendError>>]
        ELSE [calls |-> <<call>>, value |-> <<"list", resourceType>>,
              err |-> NoError]

\* CreateResource(resourceType, namespace, object)
CreateResource(resourceType, namespace, object, outcome) ==
    LET r == getGroupVersionResource(resourceType)
        call == BackendCall("Create", r.gvr, namespace, "", outcome)
    IN  IF r.err # NoError THEN [calls |-> <<>>, value |-> <<>>, err |-> r.err]
        ELSE IF outcome = "error"
        THEN [calls |-> <<call>>, value |-> <<>>,
              err |-> <<"failed to create %s: %v", resourceType, BackendError>>]
        ELSE [calls |-> <<call>>, value |-> <<"resource", resourceType, object>>,
              err |-> NoError]

\* DeleteResource calling the backend a second time after an error
DeleteResourceRetrying(resourceType, namespace, name, outcome) ==
    LET r == getGroupVersionResource(resourceType)
        call == BackendCall("Delete", r.gvr, namespace, name, outcome)
    IN  IF r.err # NoError THEN [calls |-> <<>>, value |-> <<>>, err |-> r.err]
        ELSE IF outcome = "error"
        THEN [calls |-> <<call, call>>, value |-> <<>>,
              err |-> <<"failed to delete %s '%s': %v", resourceType, name, BackendError>>]
        ELSE [calls |-> <<call>>, value |-> <<>>, err |-> NoError]

\* DeleteResource(resourceType, namespace, name)
DeleteResource(resourceType, namespace, name, outcome) ==
    LET r == getGroupVersionResource(resourceType)
        call == BackendCall("Delete", r.gvr, namespace, name, outcome)
    IN  IF r.err # NoError THEN [calls |-> <<>>, value |-> <<>>, err |-> r.err]
        ELSE IF outcome = "error"
        THEN [calls |-> <<call>>, value |-> <<>>,
              err |-> <<"failed to delete %s '%s': %v", resourceType, name, BackendError>>]
        ELSE [calls |-> <<call>>, value |-> <<>>, err |-> NoError]

(***************************************************************************)
(* Library functions of the handlers and of GetLogs.                       *)
(***************************************************************************)

\* json.Unmarshal(cmd.Data, &obj.Object) succeeds: the data is a JSON object
\* or null (of the documents the model's envelopes carry)
JsonUnmarshalObjectOk(raw) ==
    \/ raw = <<"n", "u", "l", "l">>
    \/ Len(raw) >= 2 /\ raw[1] = "{" /\ raw[Len(raw)] = "}"

DurationUnits ==
    { <<"n","s">>, <<"u","s">>, <<"m","s">>, <<"s">>, <<"m">>, <<"h">> }

\* the length of the longest prefix of s made of digits
DigitPrefixLen(s) ==
    LET stop == {i \in DOMAIN s : ~IsDigit(s[i])}
    IN  IF stop = {} THEN Len(s) ELSE MinOf(stop) - 1

\* the length of the longest prefix of s made of the characters of a unit
UnitPrefixLen(s) ==
    LET stop == {i \in DOMAIN s : IsDigit(s[i]) \/ s[i] = "."}
    IN  IF stop = {} THEN Len(s) ELSE MinOf(stop) - 1

\* the groups of a duration: one or more of digits followed by a unit
RECURSIVE DurationGroups(_)
DurationGroups(s) ==
    LET nd   == DigitPrefixLen(s)
        rest == SubSeq(s, nd + 1, Len(s))
        nu   == UnitPrefixLen(rest)
        unit == SubSeq(rest, 1, nu)
        tail == SubSeq(rest, nu + 1, Len(rest))
    IN  /\ nd >= 1
        /\ unit \in DurationUnits
        /\ (tail = <<>> \/ DurationGroups(tail))

\* time.ParseDuration(s) succeeds (durations without a fraction)
TimeParseDurationOk(s) ==
    LET u == IF s # <<>> /\ s[1] \in {"+", "-"} THEN Tail(s) ELSE s
    IN  u = <<"0">> \/ (u # <<>> /\ DurationGroups(u))

\* the depth of parentheses after each prefix of a pattern
RECURSIVE ParenDepth(_, _)
ParenDepth(p, n) ==
    IF n = 0 THEN 0
    ELSE ParenDepth(p, n - 1)
         + (IF p[n] = "(" THEN 1 ELSE IF p[n] = ")" THEN -1 ELSE 0)

\* regexp.Compile(pattern) succeeds, for patterns of literals and groups:
\* the parentheses are balanced
RegexpCompileOk(pattern) ==
    /\ \A n \in 0..Len(pattern) : ParenDepth(pattern, n) >= 0
    /\ ParenDepth(pattern, Len(pattern)) = 0

NoRegexp == [set |-> FALSE, expr |-> <<>>]

\* the literal a pattern of literals and groups matches
PatternLiteral(pattern) == SelectSeq(pattern, LAMBDA c : c \notin {"(", ")"})

\* re.MatchString(s)
MatchString(rx, s) == Contains(s, PatternLiteral(rx.expr))

(***************************************************************************)
(* logs.LogOptions and the options the three log handlers build.           *)
(***************************************************************************)
NoTime == ClockTime(0)

NoOptions ==
    [namespace |-> "", pod |-> "", container |-> "",
     sinceTime |-> NoTime, hasSinceTime |-> FALSE,
     sinceSeconds |-> 0, hasSinceSeconds |-> FALSE,
     tail |-> 0, hasTail |-> FALSE,
     pattern |-> <<>>, logLevel |-> <<>>]

\* time.Now().Add(-since)
TimeAgo(since, t) == [src |-> "ago", at |-> t, text |-> since]

\* the parsing of the since parameter: a duration before now, else an RFC3339
\* timestamp, else an error
ParseSince(o, since, t) ==
    IF since = <<>> THEN [opts |-> o, err |-> NoError]
    ELSE IF TimeParseDurationOk(since)
    THEN [opts |-> [o EXCEPT !.sinceTime = TimeAgo(since, t), !.hasSinceTime = TRUE],
          err |-> NoError]
    ELSE IF TimeParseOk(since)
    THEN [opts |-> [o EXCEPT !.sinceTime = ParsedTime(since), !.hasSinceTime = TRUE],
          err |-> NoError]
    ELSE [opts |-> o, err |-> <<"invalid 'since' parameter: %v", since>>]

\* the parsing of the tail parameter
ParseTail(o, tail) ==
    IF tail > 0 THEN [o EXCEPT !.tail = tail, !.hasTail = TRUE] ELSE o

\* the required fields of the three log commands
logsMissing(c) ==
    c.namespace = "" \/ ~c.hasLogOptions \/ c.logOptions.pod = ""

\* handleLogsCommand up to its call of GetLogs: the error it returns, or the
\* options it passes
handleLogsPrepare(c, t) ==
    IF logsMissing(c)
    THEN [opts |-> NoOptions, err |-> <<"namespace and pod are required">>]
    ELSE LET base == [NoOptions EXCEPT !.namespace = c.namespace,
                                       !.pod = c.logOptions.pod,
                                       !.container = c.logOptions.container]
             s == ParseSince(base, c.logOptions.since, t)
         IN  IF s.err # NoError THEN [opts |-> NoOptions, err |-> s.err]
             ELSE [opts |-> ParseTail(s.opts, c.logOptions.tail), err |-> NoError]

\* handleSearchLogsCommand up to its call of GetLogs
handleSearchLogsPrepare(c, t) ==
    IF logsMissing(c)
    THEN [opts |-> NoOptions, err |-> <<"namespace and pod are required">>]
    ELSE IF c.logOptions.pattern = <<>>
    THEN [opts |-> NoOptions, err |-> <<"search pattern is required">>]
    ELSE LET base == [NoOptions EXCEPT !.namespace = c.namespace,
                                       !.pod = c.logOptions.pod,
                                       !.container = c.logOptions.container,
                                       !.pattern = c.logOptions.pattern,
                                       !.logLevel = c.logOptions.logLevel]
             s == ParseSince(base, c.logOptions.since, t)
         IN  IF s.err # NoError THEN [opts |-> NoOptions, err |-> s.err]
             ELSE [opts |-> ParseTail(s.opts, c.logOptions.tail), err |-> NoError]

\* handleExportLogsCommand up to its call of GetLogs
handleExportLogsPrepare(c, t) ==
    IF logsMissing(c)
    THEN [opts |-> NoOptions, err |-> <<"namespace and pod are required">>]
    ELSE IF c.logOptions.format = <<>>
    THEN [opts |-> NoOptions, err |-> <<"export format is required">>]
    ELSE LET base == [NoOptions EXCEPT !.namespace = c.namespace,
                                       !.pod = c.logOptions.pod,
                                       !.container = c.logOptions.container,
                                       !.pattern = c.logOptions.pattern,
                                       !.logLevel = c.logOptions.logLevel]
             s == ParseSince(base, c.logOptions.since, t)
         IN  IF s.err # NoError THEN [opts |-> NoOptions, err |-> s.err]
             ELSE [opts |-> ParseTail(s.opts, c.logOptions.tail), err |-> NoError]

(***************************************************************************)
(* LogManager.GetLogs and LogManager.ExportLogs (pkg/logs/logs.go).        *)
(***************************************************************************)

\* the corev1.PodLogOptions of the request
podLogOpts(o) ==
    [container       |-> o.container,
     sinceTime       |-> IF o.hasSinceTime THEN o.sinceTime ELSE NoTime,
     hasSinceTime    |-> o.hasSinceTime,
     sinceSeconds    |-> o.sinceSeconds,
     hasSinceSeconds |-> o.hasSinceSeconds,
     tailLines       |-> o.tail,
     hasTailLines    |-> o.hasTail,
     follow          |-> FALSE]

\* the call that opens the log stream of a pod, with the backend's answer:
\* the stream it sends, or its refusal
StreamCall(o, answer, body) ==
    [op |-> "Stream", gvr |-> <<"", "v1", "pods/log">>,
     namespaced |-> o.namespace # "", namespace |-> o.namespace,
     name |-> o.pod, logOptions |-> podLogOpts(o),
     answer |-> answer, body |-> body]

LineInfo == <<"I","N","F","O"," ","o","k">>

LineError == <<"e","r","r","o","r"," ","f","a","i","l">>

LineFail == <<" ","f","a","i","l"," ">>

StreamLines == {LineInfo, LineError, LineFail}

RECURSIVE SeqsUpTo(_, _)
SeqsUpTo(S, n) ==
    IF n = 0 THEN {<<>>}
    ELSE LET shorter == SeqsUpTo(S, n - 1)
         IN  shorter \cup {Append(q, x) : q \in shorter, x \in S}

Streams ==
    [lines : SeqsUpTo(StreamLines, MaxLines), frag : {<<>>, LineError},
     fail : BOOLEAN]

\* reader.ReadString('\n') on the stream s: the text read, the error, and
\* what is left of the stream
ReadString(s) ==
    IF s.lines # <<>>
    THEN [line |-> Head(s.lines) \o <<"\n">>, err |-> "nil",
          rest |-> [s EXCEPT !.lines = Tail(s.lines)]]
    ELSE IF s.fail
    THEN [line |-> s.frag, err |-> "error", rest |-> [s EXCEPT !.frag = <<>>]]
    ELSE [line |-> s.frag, err |-> "EOF", rest |-> [s EXCEPT !.frag = <<>>]]

\* what GetLogs returns
NoReturn == [set |-> FALSE, entries |-> <<>>, err |-> NoError]

GetLogsReturn(entries, err) == [set |-> TRUE, entries |-> entries, err |-> err]

\* CompilePattern with the error of regexp.Compile ignored
CompilePatternUnchecked(pattern) ==
    IF pattern = <<>> THEN [re |-> NoRegexp, err |-> NoError]
    ELSE [re |-> [set |-> TRUE, expr |-> pattern], err |-> NoError]

\* the compilation of the pattern in GetLogs
CompilePattern(pattern) ==
    IF pattern = <<>> THEN [re |-> NoRegexp, err |-> NoError]
    ELSE IF RegexpCompileOk(pattern)
    THEN [re |-> [set |-> TRUE, expr |-> pattern], err |-> NoError]
    ELSE [re |-> NoRegexp, err |-> <<"invalid regex pattern: %v", pattern>>]

\* the two filters of the loop of GetLogs: whether the entry is appended
KeepEntry(entry, rx, logLevel) ==
    /\ ~(rx.set /\ ~MatchString(rx, entry.message))
    /\ ~(logLevel # <<>> /\ ~EqualFold(entry.logLevel, logLevel))

\* ReadTurn returning the entries accumulated so far with the read error
ReadTurnPartial(s, entries, o, rx, t) ==
    LET r == ReadString(s)
        entry == parseLogEntry(r.line, o.pod, o.container, o.namespace, t)
    IN  IF r.err = "EOF"
        THEN [stop |-> TRUE, stream |-> r.rest, entries |-> entries,
              ret |-> GetLogsReturn(entries, NoError)]
        ELSE IF r.err # "nil"
        THEN [stop |-> TRUE, stream |-> r.rest, entries |-> entries,
              ret |-> GetLogsReturn(entries, <<"error reading logs: %v", "read failed">>)]
        ELSE [stop |-> FALSE, stream |-> r.rest,
              entries |-> IF KeepEntry(entry, rx, o.logLevel)
                          THEN Append(entries, entry) ELSE entries,
              ret |-> NoReturn]

\* one turn of the loop of GetLogs: read, then stop or parse and filter
ReadTurn(s, entries, o, rx, t) ==
    LET r == ReadString(s)
        entry == parseLogEntry(r.line, o.pod, o.container, o.namespace, t)
    IN  IF r.err = "EOF"
        THEN [stop |-> TRUE, stream |-> r.rest, entries |-> entries,
              ret |-> GetLogsReturn(entries, NoError)]
        ELSE IF r.err # "nil"
        THEN [stop |-> TRUE, stream |-> r.rest, entries |-> entries,
              ret |-> GetLogsReturn(<<>>, <<"error reading logs: %v", "read failed">>)]
        ELSE [stop |-> FALSE, stream |-> r.rest,
              entries |-> IF KeepEntry(entry, rx, o.logLevel)
                          THEN Append(entries, entry) ELSE entries,
              ret |-> NoReturn]

ExportFormats ==
    { <<"j","s","o","n">>, <<"c","s","v">>, <<"n","d","j","s","o","n">>,
      <<"p","l","a","i","n","t","e","x","t">>, <<"t","e","x","t">> }

(***************************************************************************)
(* The writer ExportLogs writes to, and the []LogEntry it is given.        *)
(***************************************************************************)

\* an io.Writer: the chunks written to it so far, one per successful call of
\* Write, how many more calls of Write succeed when it is limited, and how
\* many calls of Write have failed
Writer(limited, room) ==
    [limited |-> limited, room |-> room, written |-> <<>>, failures |-> 0]

\* the bytes.Buffer of handleExportLogsCommand: its Write never fails
Buffer == Writer(FALSE, 0)

WriteError == <<"write failed">>

\* writer.Write(chunk)
Write(w, chunk) ==
    IF ~w.limited
    THEN [w |-> [w EXCEPT !.written = Append(@, chunk)], err |-> NoError]
    ELSE IF w.room > 0
    THEN [w |-> [w EXCEPT !.written = Append(@, chunk), !.room = @ - 1],
          err |-> NoError]
    ELSE [w |-> [w EXCEPT !.failures = @ + 1], err |-> WriteError]

\* a []LogEntry value: the nil slice, or a slice holding the items
NilSlice == [isNil |-> TRUE, items |-> <<>>]

Slice(items) == [isNil |-> FALSE, items |-> items]

\* the slice GetLogs returns: "var logEntries []LogEntry" is nil until the
\* first append
SliceOf(entries) == IF entries = <<>> THEN NilSlice ELSE Slice(entries)

(***************************************************************************)
(* encoding/json as ExportLogs uses it.  A document is modelled by its     *)
(* syntax tree; a string by its characters between quotes.                 *)
(***************************************************************************)

\* a byte that is not valid UTF-8, and the character U+FFFD
InvalidByte == "0xFF"

ReplacementChar == "U+FFFD"

\* the encoding of one character of a string
JsonEscape(c) ==
    IF c = "\"" THEN <<"\\", "\"">>
    ELSE IF c = "\\" THEN <<"\\", "\\">>
    ELSE IF c = "\n" THEN <<"\\", "n">>
    ELSE IF c = InvalidByte THEN <<"\\", "u", "f", "f", "f", "d">>
    ELSE <<c>>

RECURSIVE JsonEscapeAll(_)
JsonEscapeAll(s) ==
    IF s = <<>> THEN <<>> ELSE JsonEscape(Head(s)) \o JsonEscapeAll(Tail(s))

\* the JSON form of a string
JsonString(s) == <<"\"">> \o JsonEscapeAll(s) \o <<"\"">>

\* the JSON form of a name of the cluster (pod, container, namespace): the
\* model's names hold no character that needs an escape
JsonName(a) == <<"\"", a, "\"">>

\* time.Time.MarshalJSON: the RFC3339Nano text of the instant, quoted
TimeMarshalJSON(t) ==
    <<"\"", "RFC3339Nano", t.src, ToString(t.at)>> \o t.text \o <<"\"">>

\* EntryObject with the json tags of Pod and Container exchanged
EntryObjectSwappedTags(e) ==
    << <<"timestamp", TimeMarshalJSON(e.timestamp)>>,
       <<"message", JsonString(e.message)>>,
       <<"container", JsonName(e.pod)>>,
       <<"pod", JsonName(e.container)>>,
       <<"namespace", JsonName(e.namespace)>> >>
    \o (IF e.logLevel = <<>> THEN <<>>
        ELSE << <<"level", JsonString(e.logLevel)>> >>)

\* the JSON object of a LogEntry, members in the order of the struct's
\* fields; level is omitted when empty
EntryObject(e) ==
    << <<"timestamp", TimeMarshalJSON(e.timestamp)>>,
       <<"message", JsonString(e.message)>>,
       <<"pod", JsonName(e.pod)>>,
       <<"container", JsonName(e.container)>>,
       <<"namespace", JsonName(e.namespace)>> >>
    \o (IF e.logLevel = <<>> THEN <<>>
        ELSE << <<"level", JsonString(e.logLevel)>> >>)

JsonNull == <<"null">>

JsonArray(elems) == <<"array", elems>>

\* json.Marshal of a []LogEntry
MarshalEntries(entries) ==
    IF entries.isNil THEN JsonNull
    ELSE JsonArray([i \in DOMAIN entries.items |-> EntryObject(entries.items[i])])

\* json.NewEncoder(w).Encode(v): the document and a newline in one Write
Encode(w, doc) == Write(w, <<doc, "\n">>)

(***************************************************************************)
(* encoding/csv and bufio as exportToCSV uses them.                        *)
(***************************************************************************)

\* the size of the buffer of the bufio.Writer inside a csv.Writer
defaultBufSize == 4096

\* csv.Writer.fieldNeedsQuotes
fieldNeedsQuotes(f) ==
    /\ f # <<>>
    /\ \/ f = <<"\\", ".">>
       \/ \E i \in DOMAIN f : f[i] \in {",", "\"", "\n", "\r"}
       \/ IsSpace(f[1])

RECURSIVE CsvQuoteAll(_)
CsvQuoteAll(f) ==
    IF f = <<>> THEN <<>>
    ELSE (IF Head(f) = "\"" THEN <<"\"", "\"">> ELSE <<Head(f)>>)
         \o CsvQuoteAll(Tail(f))

\* one field as csv.Writer.Write writes it
CsvField(f) ==
    IF fieldNeedsQuotes(f) THEN <<"\"">> \o CsvQuoteAll(f) \o <<"\"">> ELSE f

\* the fields of a record joined by commas, with the line end
RECURSIVE CsvJoin(_)
CsvJoin(fields) ==
    IF fields = <<>> THEN <<"\n">>
    ELSE CsvField(Head(fields))
         \o (IF Len(fields) > 1 THEN <<",">> ELSE <<>>)
         \o CsvJoin(Tail(fields))

\* entry.Timestamp.Format(time.RFC3339): the text of the instant to the second
FormatRFC3339(t) == <<"RFC3339", t.src, ToString(t.at)>> \o t.text

CsvHeader ==
    << <<"T","i","m","e","s","t","a","m","p">>, <<"P","o","d">>,
       <<"C","o","n","t","a","i","n","e","r">>,
       <<"N","a","m","e","s","p","a","c","e">>, <<"L","e","v","e","l">>,
       <<"M","e","s","s","a","g","e">> >>

CsvRecord(e) ==
    << FormatRFC3339(e.timestamp), <<e.pod>>, <<e.container>>, <<e.namespace>>,
       e.logLevel, e.message >>

\* csv.NewWriter(writer): an empty buffer over the writer, no error yet
NewCsvWriter(w) == [w |-> w, buf |-> <<>>, err |-> NoError]

\* bufio.Writer.Flush
BufioFlush(b) ==
    IF b.err # NoError THEN b
    ELSE IF b.buf = <<>> THEN b
    ELSE LET r == Write(b.w, b.buf)
         IN  IF r.err # NoError THEN [b EXCEPT !.w = r.w, !.err = r.err]
             ELSE [b EXCEPT !.w = r.w, !.buf = <<>>]

\* bufio.Writer.WriteString: text that does not fit fills the buffer, which
\* is flushed, and the rest follows
RECURSIVE BufioWriteString(_, _)
BufioWriteString(b, s) ==
    LET avail == defaultBufSize - Len(b.buf)
    IN  IF b.err # NoError THEN b
        ELSE IF Len(s) <= avail THEN [b EXCEPT !.buf = @ \o s]
        ELSE BufioWriteString(
                 BufioFlush([b EXCEPT !.buf = @ \o SubSeq(s, 1, avail)]),
                 SubSeq(s, avail + 1, Len(s)))

\* csv.Writer.Write(record): the writer after it, and the error it returns
CsvWrite(b, record) ==
    LET after == BufioWriteString(b, CsvJoin(record))
    IN  [b |-> after, err |-> after.err]

(***************************************************************************)
(* LogManager.ExportLogs and its four serializers.  Each returns the       *)
(* writer after the export and the error.                                  *)
(***************************************************************************)

\* the loop of exportToCSV over the entries
RECURSIVE CsvRows(_, _)
CsvRows(b, items) ==
    IF items = <<>> THEN [b |-> b, err |-> NoError]
    ELSE LET r == CsvWrite(b, CsvRecord(Head(items)))
         IN  IF r.err # NoError
             THEN [b |-> r.b, err |-> <<"error writing CSV record: %v", r.err>>]
             ELSE CsvRows(r.b, Tail(items))

\* exportToCSV: the header, the rows, and the deferred Flush, whose outcome
\* is not looked at
exportToCSV(entries, writer) ==
    LET h == CsvWrite(NewCsvWriter(writer), CsvHeader)
        r == IF h.err # NoError
             THEN [b |-> h.b, err |-> <<"error writing CSV header: %v", h.err>>]
             ELSE CsvRows(h.b, entries.items)
    IN  [w |-> BufioFlush(r.b).w, err |-> r.err]

RECURSIVE NdjsonRows(_, _)
NdjsonRows(w, items) ==
    IF items = <<>> THEN [w |-> w, err |-> NoError]
    ELSE LET r == Encode(w, EntryObject(Head(items)))
         IN  IF r.err # NoError
             THEN [w |-> r.w, err |-> <<"error writing NDJSON record: %v", r.err>>]
             ELSE NdjsonRows(r.w, Tail(items))

exportToNDJSON(entries, writer) == NdjsonRows(writer, entries.items)

\* the line fmt.Sprintf makes of an entry
PlaintextLine(e) ==
    <<"[">> \o FormatRFC3339(e.timestamp) \o <<"]", " ", "[", e.namespace, "]",
    " ", "[", e.pod, "/", e.container, "]", " ", "[">> \o e.logLevel
    \o <<"]", " ">> \o e.message \o <<"\n">>

RECURSIVE PlaintextRows(_, _)
PlaintextRows(w, items) ==
    IF items = <<>> THEN [w |-> w, err |-> NoError]
    ELSE LET r == Write(w, PlaintextLine(Head(items)))
         IN  IF r.err # NoError
             THEN [w |-> r.w,
                   err |-> <<"error writing plaintext record: %v", r.err>>]
             ELSE PlaintextRows(r.w, Tail(items))

exportToPlaintext(entries, writer) == PlaintextRows(writer, entries.items)

\* ExportLogs comparing the format as it is written, without strings.ToLower
ExportLogsCaseSensitive(entries, format, writer) ==
    IF format = <<"j","s","o","n">>
    THEN Encode(writer, MarshalEntries(entries))
    ELSE IF format = <<"c","s","v">>
    THEN exportToCSV(entries, writer)
    ELSE IF format = <<"n","d","j","s","o","n">>
    THEN exportToNDJSON(entries, writer)
    ELSE IF format \in {<<"p","l","a","i","n","t","e","x","t">>, <<"t","e","x","t">>}
    THEN exportToPlaintext(entries, writer)
    ELSE [w |-> writer, err |-> <<"unsupported export format: %s", format>>]

\* ExportLogs(entries, format, writer): the writer after it, and the error
ExportLogs(entries, format, writer) ==
    LET f == ToLower(format)
    IN  IF f = <<"j","s","o","n">>
        THEN Encode(writer, MarshalEntries(entries))
        ELSE IF f = <<"c","s","v">>
        THEN exportToCSV(entries, writer)
        ELSE IF f = <<"n","d","j","s","o","n">>
        THEN exportToNDJSON(entries, writer)
        ELSE IF f \in {<<"p","l","a","i","n","t","e","x","t">>, <<"t","e","x","t">>}
        THEN exportToPlaintext(entries, writer)
        ELSE [w |-> writer, err |-> <<"unsupported export format: %s", format>>]

(***************************************************************************)
(* parseLogEntry called on its own.                                        *)
(***************************************************************************)
HandlerIdle ==
    /\ pc = "idle"
    /\ cmd = NoCommand
    /\ opts = NoOptions
    /\ resp = NoResponse
    /\ calls = <<>>
    /\ stream = NoStream
    /\ streamOpen = FALSE
    /\ closes = 0
    /\ re = NoRegexp
    /\ logEntries = <<>>
    /\ reads = 0
    /\ ret = NoReturn
    /\ tasks = <<>>

InitParse ==
    /\ HandlerIdle
    /\ now \in 0..MaxClock
    /\ pin \in ParseArgs
    /\ pout = NoParse

\* one call of parseLogEntry(line, pod, container, namespace)
ParseCall ==
    /\ ~pout.done
    /\ pout' = [done  |-> TRUE,
                entry |-> parseLogEntry(pin.line, pin.pod, pin.container,
                                        pin.namespace, now),
                at    |-> now]
    /\ UNCHANGED <<handlerVars, now, pin>>

\* the wall clock advances
Tick ==
    /\ now < MaxClock
    /\ now' = now + 1
    /\ UNCHANGED <<handlerVars, pin, pout>>

NextParse == ParseCall \/ Tick

SpecParse == InitParse /\ [][NextParse]_vars

(***************************************************************************)
(* ExportLogs called on its own.                                           *)
(***************************************************************************)

\* the entries handed to ExportLogs: with and without a level, with a comma
\* and a quote, with a leading space, with a byte that is not valid UTF-8
ExportEntries ==
    { [timestamp |-> ClockTime(0), message |-> LineInfo, pod |-> "p1",
       container |-> "c", namespace |-> "ns", logLevel |-> <<"I","N","F","O">>],
      [timestamp |-> ClockTime(1), message |-> <<"a", ",", "\"", "b">>,
       pod |-> "p1", container |-> "c", namespace |-> "ns", logLevel |-> <<>>],
      [timestamp |-> ParsedTime(SinceTimestamp), message |-> <<" ", "z", "\\">>,
       pod |-> "", container |-> "c", namespace |-> "ns", logLevel |-> <<>>],
      [timestamp |-> ClockTime(0), message |-> <<"x", InvalidByte>>,
       pod |-> "p1", container |-> "c", namespace |-> "ns",
       logLevel |-> <<"E","R","R","O","R">>] }

ExportSlices ==
    {NilSlice} \cup {Slice(q) : q \in SeqsUpTo(ExportEntries, MaxEntries)}

\* every way of writing the letters of s in upper and lower case
RECURSIVE CaseVariants(_)
CaseVariants(s) ==
    IF s = <<>> THEN {<<>>}
    ELSE {<<c>> \o rest : c \in {ToLowerChar(Head(s)), ToUpperChar(Head(s))},
                          rest \in CaseVariants(Tail(s))}

ExportFormatInputs ==
    CaseVariants(<<"j","s","o","n">>) \cup CaseVariants(<<"c","s","v">>)
    \cup CaseVariants(<<"t","e","x","t">>)
    \cup { <<"n","d","j","s","o","n">>, <<"N","D","J","S","O","N">>,
           <<"N","d","J","s","o","n">>,
           <<"p","l","a","i","n","t","e","x","t">>,
           <<"P","L","A","I","N","T","E","X","T">>,
           <<"P","l","a","i","n","T","e","x","t">> }
    \cup { <<>>, <<"x","m","l">>, <<"j","s","o","n","l">>, <<"t","x","t">>,
           <<" ","j","s","o","n">>, <<"y","a","m","l">> }

\* a buffer, and writers whose Write fails after 0..MaxEntries calls
ExportWriters == {Buffer} \cup {Writer(TRUE, n) : n \in 0..MaxEntries}

ExportArgs ==
    [entries : ExportSlices, format : ExportFormatInputs, writer : ExportWriters]

NoExport == [done |-> FALSE, err |-> NoError, written |-> <<>>, failures |-> 0]

InitExport ==
    /\ HandlerIdle
    /\ now = 0
    /\ pin \in ExportArgs
    /\ pout = NoExport

\* one call of ExportLogs(entries, format, writer)
ExportCall ==
    /\ ~pout.done
    /\ LET e == ExportLogs(pin.entries, pin.format, pin.writer)
       IN  pout' = [done |-> TRUE, err |-> e.err, written |-> e.w.written,
                    failures |-> e.w.failures]
    /\ UNCHANGED <<handlerVars, now, pin>>

NextExport == ExportCall

SpecExport == InitExport /\ [][NextExport]_vars

(***************************************************************************)
(* The resource client called on its own: getGroupVersionResource and the  *)
(* four methods of Client, one call after another.  pin holds the          *)
(* arguments of the last call; pout the result of the call before it and   *)
(* the result of the last call.                                            *)
(***************************************************************************)

\* the kinds of the table, and strings that are not in it
KindInputs ==
    DOMAIN resourceMap \cup {"", "Pods", "PODS", "pod", "not-a-kind"}

\* the kinds the four methods are called with: namespaced and cluster-scoped
\* kinds of the table, and strings that are not in it
MethodKinds == {"pods", "namespaces", "ingresses", "", "Pods", "not-a-kind"}

ClientNamespaces == {"", "ns"}

ClientObject == <<"{", "}">>

NoClientArgs ==
    [op |-> "", resourceType |-> "", namespace |-> "", name |-> "",
     outcome |-> "ok"]

NoClientResult ==
    [set |-> FALSE, args |-> NoClientArgs, gvr |-> NoGVR, calls |-> <<>>,
     value |-> <<>>, err |-> NoError]

ClientResult(args, gvr, r) ==
    [set |-> TRUE, args |-> args, gvr |-> gvr, calls |-> r.calls,
     value |-> r.value, err |-> r.err]

InitClient ==
    /\ HandlerIdle
    /\ now = 0
    /\ pin = NoClientArgs
    /\ pout = <<NoClientResult, NoClientResult>>

\* the call is made: its result becomes the last one
Called(args, result) ==
    /\ pin' = args
    /\ pout' = <<pout[2], result>>
    /\ UNCHANGED <<handlerVars, now>>

Resolve ==
    \E k \in KindInputs :
        LET args == [NoClientArgs EXCEPT !.op = "resolve", !.resourceType = k]
            r == getGroupVersionResource(k)
        IN  Called(args, ClientResult(args, r.gvr,
                                      [calls |-> <<>>, value |-> <<>>, err |-> r.err]))

ClientGet ==
    \E k \in MethodKinds, ns \in ClientNamespaces, outcome \in BackendOutcomes :
        LET args == [op |-> "get", resourceType |-> k, namespace |-> ns,
                     name |-> "web", outcome |-> outcome]
        IN  Called(args, ClientResult(args, NoGVR, GetResource(k, ns, "web", outcome)))

ClientList ==
    \E k \in MethodKinds, ns \in ClientNamespaces, outcome \in BackendOutcomes :
        LET args == [op |-> "list", resourceType |-> k, namespace |-> ns,
                     name |-> "", outcome |-> outcome]
        IN  Called(args, ClientResult(args, NoGVR, ListResources(k, ns, outcome)))

ClientCreate ==
    \E k \in MethodKinds, ns \in ClientNamespaces, outcome \in BackendOutcomes :
        LET args == [op |-> "create", resourceType |-> k, namespace |-> ns,
                     name |-> "", outcome |-> outcome]
        IN  Called(args, ClientResult(args, NoGVR,
                                      CreateResource(k, ns, ClientObject, outcome)))

ClientDelete ==
    \E k \in MethodKinds, ns \in ClientNamespaces, outcome \in BackendOutcomes :
        LET args == [op |-> "delete", resourceType |-> k, namespace |-> ns,
                     name |-> "web", outcome |-> outcome]
        IN  Called(args, ClientResult(args, NoGVR, DeleteResource(k, ns, "web", outcome)))

NextClient ==
    \/ Resolve
    \/ ClientGet
    \/ ClientList
    \/ ClientCreate
    \/ ClientDelete

SpecClient == InitClient /\ [][NextClient]_vars

(***************************************************************************)
(* The handlers of the resource commands (Handler, pkg/mcp).  Each returns *)
(* its response and the backend calls it made.                             *)
(***************************************************************************)
Handled(response, made) == [resp |-> response, calls |-> made]

\* Dispatch with the default case routed to the list handler
DispatchDefaultToList(type) ==
    CASE type = GetCommand        -> "handleGetCommand"
      [] type = CreateCommand     -> "handleCreateCommand"
      [] type = DeleteCommand     -> "handleDeleteCommand"
      [] type = LogsCommand       -> "handleLogsCommand"
      [] type = SearchLogsCommand -> "handleSearchLogsCommand"
      [] type = ExportLogsCommand -> "handleExportLogsCommand"
      [] OTHER                    -> "handleListCommand"

\* the switch of HandleCommand
Dispatch(type) ==
    CASE type = ListCommand       -> "handleListCommand"
      [] type = GetCommand        -> "handleGetCommand"
      [] type = CreateCommand     -> "handleCreateCommand"
      [] type = DeleteCommand     -> "handleDeleteCommand"
      [] type = LogsCommand       -> "handleLogsCommand"
      [] type = SearchLogsCommand -> "handleSearchLogsCommand"
      [] type = ExportLogsCommand -> "handleExportLogsCommand"
      [] OTHER                    -> "default"

\* the default case of HandleCommand
handleDefault(c) ==
    Handled(NewErrorResponse(<<"unsupported command type: %s", c.type>>), <<>>)

listMissing(c) == c.resource = ""

handleListCommand(c, outcome) ==
    IF listMissing(c)
    THEN Handled(NewErrorResponse(<<"resource type is required">>), <<>>)
    ELSE LET r == ListResources(c.resource, c.namespace, outcome)
         IN  IF r.err # NoError THEN Handled(NewErrorResponse(r.err), r.calls)
             ELSE Handled(NewSuccessResponse(<<"Successfully listed %s", c.resource>>,
                                             r.value), r.calls)

\* getMissing requiring both fields to be missing
getMissingBoth(c) == c.resource = "" /\ c.name = ""

getMissing(c) == c.resource = "" \/ c.name = ""

handleGetCommand(c, outcome) ==
    IF getMissing(c)
    THEN Handled(NewErrorResponse(<<"resource type and name are required">>), <<>>)
    ELSE LET r == GetResource(c.resource, c.namespace, c.name, outcome)
         IN  IF r.err # NoError THEN Handled(NewErrorResponse(r.err), r.calls)
             ELSE Handled(NewSuccessResponse(
                              <<"Successfully retrieved %s '%s'", c.resource, c.name>>,
                              r.value), r.calls)

createMissing(c) == c.resource = "" \/ c.data.isNil

handleCreateCommand(c, outcome) ==
    IF createMissing(c)
    THEN Handled(NewErrorResponse(<<"resource type and data are required">>), <<>>)
    ELSE IF ~JsonUnmarshalObjectOk(c.data.raw)
    THEN Handled(NewErrorResponse(<<"invalid resource data: %v", c.data.raw>>), <<>>)
    ELSE LET r == CreateResource(c.resource, c.namespace, c.data.raw, outcome)
         IN  IF r.err # NoError THEN Handled(NewErrorResponse(r.err), r.calls)
             ELSE Handled(NewSuccessResponse(<<"Successfully created %s", c.resource>>,
                                             r.value), r.calls)

deleteMissing(c) == c.resource = "" \/ c.name = ""

handleDeleteCommand(c, outcome) ==
    IF deleteMissing(c)
    THEN Handled(NewErrorResponse(<<"resource type and name are required">>), <<>>)
    ELSE LET r == DeleteResource(c.resource, c.namespace, c.name, outcome)
         IN  IF r.err # NoError THEN Handled(NewErrorResponse(r.err), r.calls)
             ELSE Handled(NewSuccessResponse(
                              <<"Successfully deleted %s '%s'", c.resource, c.name>>,
                              <<>>), r.calls)

\* the three log handlers after GetLogs has returned r
handleLogsFinish(c, r) ==
    IF r.err # NoError THEN NewErrorResponse(r.err)
    ELSE NewSuccessResponse(
             <<"Successfully retrieved logs from pod '%s'", c.logOptions.pod>>,
             <<"entries", r.entries>>)

handleSearchLogsFinish(c, r) ==
    IF r.err # NoError THEN NewErrorResponse(r.err)
    ELSE NewSuccessResponse(
             <<"Successfully searched logs from pod '%s'", c.logOptions.pod>>,
             <<"entries", r.entries>>)

\* handleExportLogsFinish with the error of ExportLogs ignored
handleExportLogsFinishUnchecked(c, r) ==
    IF r.err # NoError THEN NewErrorResponse(r.err)
    ELSE NewSuccessResponse(
             <<"Successfully exported logs from pod '%s' in %s format",
               c.logOptions.pod, c.logOptions.format>>,
             <<"exported_logs",
               ExportLogs(SliceOf(r.entries), c.logOptions.format, Buffer).w.written>>)

handleExportLogsFinish(c, r) ==
    IF r.err # NoError THEN NewErrorResponse(r.err)
    ELSE LET e == ExportLogs(SliceOf(r.entries), c.logOptions.format, Buffer)
         IN  IF e.err # NoError THEN NewErrorResponse(e.err)
             ELSE NewSuccessResponse(
                      <<"Successfully exported logs from pod '%s' in %s format",
                        c.logOptions.pod, c.logOptions.format>>,
                      <<"exported_logs", e.w.written>>)

(***************************************************************************)
(* The state machine: one command at a time, from the envelope to the      *)
(* response.                                                               *)
(***************************************************************************)
NoParseArgs == [line |-> <<>>, pod |-> "", container |-> "c", namespace |-> "ns"]

Init ==
    /\ HandlerIdle
    /\ now = 0
    /\ pin = NoParseArgs
    /\ pout = NoParse

\* a resource command, handled in one step with the backend's answer
Answer(c, h) ==
    /\ cmd' = c
    /\ resp' = h.resp
    /\ calls' = h.calls
    /\ pc' = "done"
    /\ UNCHANGED <<opts, stream, streamOpen, closes, re, logEntries, reads, ret,
                   now, pin, pout, tasks>>

HandleList ==
    /\ pc = "idle"
    /\ \E c \in Commands, outcome \in BackendOutcomes :
          /\ Dispatch(c.type) = "handleListCommand"
          /\ Answer(c, handleListCommand(c, outcome))

HandleGet ==
    /\ pc = "idle"
    /\ \E c \in Commands, outcome \in BackendOutcomes :
          /\ Dispatch(c.type) = "handleGetCommand"
          /\ Answer(c, handleGetCommand(c, outcome))

HandleCreate ==
    /\ pc = "idle"
    /\ \E c \in Commands, outcome \in BackendOutcomes :
          /\ Dispatch(c.type) = "handleCreateCommand"
          /\ Answer(c, handleCreateCommand(c, outcome))

HandleDelete ==
    /\ pc = "idle"
    /\ \E c \in Commands, outcome \in BackendOutcomes :
          /\ Dispatch(c.type) = "handleDeleteCommand"
          /\ Answer(c, handleDeleteCommand(c, outcome))

HandleDefault ==
    /\ pc = "idle"
    /\ \E c \in Commands :
          /\ Dispatch(c.type) = "default"
          /\ Answer(c, handleDefault(c))

\* a log command up to its call of GetLogs
Prepare(c, p) ==
    /\ cmd' = c
    /\ opts' = p.opts
    /\ resp' = IF p.err # NoError THEN NewErrorResponse(p.err) ELSE NoResponse
    /\ pc' = IF p.err # NoError THEN "done" ELSE "open"
    /\ UNCHANGED <<calls, stream, streamOpen, closes, re, logEntries, reads, ret,
                   now, pin, pout, tasks>>

HandleLogs ==
    /\ pc = "idle"
    /\ \E c \in Commands :
          /\ Dispatch(c.type) = "handleLogsCommand"
          /\ Prepare(c, handleLogsPrepare(c, now))

HandleSearchLogs ==
    /\ pc = "idle"
    /\ \E c \in Commands :
          /\ Dispatch(c.type) = "handleSearchLogsCommand"
          /\ Prepare(c, handleSearchLogsPrepare(c, now))

HandleExportLogs ==
    /\ pc = "idle"
    /\ \E c \in Commands :
          /\ Dispatch(c.type) = "handleExportLogsCommand"
          /\ Prepare(c, handleExportLogsPrepare(c, now))

\* GetLogs: the request is sent and the stream opened, or the backend refuses
GetLogsOpen ==
    /\ pc = "open"
    /\ \/ /\ \E s \in Streams :
                /\ stream' = s
                /\ calls' = Append(calls, StreamCall(opts, "ok", s))
          /\ streamOpen' = TRUE
          /\ pc' = "compile"
          /\ ret' = ret
       \/ /\ calls' = Append(calls, StreamCall(opts, "error", NoStream))
          /\ ret' = GetLogsReturn(<<>>, <<"error opening log stream: %v", BackendError>>)
          /\ pc' = "ret"
          /\ UNCHANGED <<stream, streamOpen>>
    /\ UNCHANGED <<cmd, opts, resp, closes, re, logEntries, reads, now, pin, pout, tasks>>

\* GetLogsCompile returning on an invalid pattern without closing the stream
GetLogsCompileLeak ==
    /\ pc = "compile"
    /\ LET c == CompilePattern(opts.pattern)
       IN  IF c.err # NoError
           THEN /\ ret' = GetLogsReturn(<<>>, c.err)
                /\ pc' = "ret"
                /\ UNCHANGED <<re, streamOpen, closes>>
           ELSE /\ re' = c.re
                /\ pc' = "read"
                /\ UNCHANGED <<ret, streamOpen, closes>>
    /\ UNCHANGED <<cmd, opts, resp, calls, stream, logEntries, reads, now, pin, pout, tasks>>

\* GetLogs: the pattern is compiled; on an error GetLogs returns and the
\* deferred Close runs
GetLogsCompile ==
    /\ pc = "compile"
    /\ LET c == CompilePattern(opts.pattern)
       IN  IF c.err # NoError
           THEN /\ ret' = GetLogsReturn(<<>>, c.err)
                /\ pc' = "ret"
                /\ streamOpen' = FALSE
                /\ closes' = closes + 1
                /\ re' = re
           ELSE /\ re' = c.re
                /\ pc' = "read"
                /\ UNCHANGED <<ret, streamOpen, closes>>
    /\ UNCHANGED <<cmd, opts, resp, calls, stream, logEntries, reads, now, pin, pout, tasks>>

\* GetLogs: one turn of the loop; when it stops GetLogs returns and the
\* deferred Close runs
GetLogsRead ==
    /\ pc = "read"
    /\ LET r == ReadTurn(stream, logEntries, opts, re, now)
       IN  /\ stream' = r.stream
           /\ logEntries' = r.entries
           /\ reads' = reads + 1
           /\ IF r.stop
              THEN /\ ret' = r.ret
                   /\ pc' = "ret"
                   /\ streamOpen' = FALSE
                   /\ closes' = closes + 1
              ELSE UNCHANGED <<ret, pc, streamOpen, closes>>
    /\ UNCHANGED <<cmd, opts, resp, calls, re, now, pin, pout, tasks>>

\* the log handler turns what GetLogs returned into the response
Finish(response) ==
    /\ resp' = response
    /\ pc' = "done"
    /\ UNCHANGED <<cmd, opts, calls, stream, streamOpen, closes, re, logEntries,
                   reads, ret, now, pin, pout, tasks>>

FinishLogs ==
    /\ pc = "ret"
    /\ Dispatch(cmd.type) = "handleLogsCommand"
    /\ Finish(handleLogsFinish(cmd, ret))

FinishSearchLogs ==
    /\ pc = "ret"
    /\ Dispatch(cmd.type) = "handleSearchLogsCommand"
    /\ Finish(handleSearchLogsFinish(cmd, ret))

FinishExportLogs ==
    /\ pc = "ret"
    /\ Dispatch(cmd.type) = "handleExportLogsCommand"
    /\ Finish(handleExportLogsFinish(cmd, ret))

\* the response is handed to the caller; the handler keeps nothing of the
\* request
Return ==
    /\ pc = "done"
    /\ pc' = "idle"
    /\ cmd' = NoCommand
    /\ opts' = NoOptions
    /\ resp' = NoResponse
    /\ calls' = <<>>
    /\ stream' = NoStream
    /\ streamOpen' = FALSE
    /\ closes' = 0
    /\ re' = NoRegexp
    /\ logEntries' = <<>>
    /\ reads' = 0
    /\ ret' = NoReturn
    /\ UNCHANGED <<now, pin, pout, tasks>>

Next ==
    \/ HandleList
    \/ HandleGet
    \/ HandleCreate
    \/ HandleDelete
    \/ HandleDefault
    \/ HandleLogs
    \/ HandleSearchLogs
    \/ HandleExportLogs
    \/ GetLogsOpen
    \/ GetLogsCompile
    \/ GetLogsRead
    \/ FinishLogs
    \/ FinishSearchLogs
    \/ FinishExportLogs
    \/ Return

Spec == Init /\ [][Next]_vars

(***************************************************************************)
(* GetLogs called on its own, with any LogOptions a caller of the logs     *)
(* package can build.                                                      *)
(***************************************************************************)
SinceSecondsValue == 300

GetLogsOptions ==
    { [namespace |-> "ns", pod |-> "p1", container |-> "c",
       sinceTime |-> IF st THEN ParsedTime(SinceTimestamp) ELSE NoTime,
       hasSinceTime |-> st,
       sinceSeconds |-> IF ss THEN SinceSecondsValue ELSE 0,
       hasSinceSeconds |-> ss,
       tail |-> IF tl THEN 5 ELSE 0, hasTail |-> tl,
       pattern |-> p, logLevel |-> lv] :
        st \in BOOLEAN, ss \in BOOLEAN, tl \in BOOLEAN,
        p \in {<<>>, PatternFail, PatternOpen}, lv \in {<<>>, LevelError} }

InitGetLogs ==
    /\ pc = "open"
    /\ cmd = NoCommand
    /\ opts \in GetLogsOptions
    /\ resp = NoResponse
    /\ calls = <<>>
    /\ stream = NoStream
    /\ streamOpen = FALSE
    /\ closes = 0
    /\ re = NoRegexp
    /\ logEntries = <<>>
    /\ reads = 0
    /\ ret = NoReturn
    /\ tasks = <<>>
    /\ now = 0
    /\ pin = NoParseArgs
    /\ pout = NoParse

NextGetLogs ==
    \/ GetLogsOpen
    \/ GetLogsCompile
    \/ GetLogsRead

SpecGetLogs == InitGetLogs /\ [][NextGetLogs]_vars

(***************************************************************************)
(* HandleCommand called concurrently on one Handler.  Each call runs in    *)
(* its own goroutine; the steps of the calls interleave.  The Handler, the *)
(* Client and the LogManager hold only the references set at construction; *)
(* everything a call works on (cmd, opts, the stream, re, logEntries, buf, *)
(* resourceMap) is an argument or a local variable of that call.           *)
(***************************************************************************)

\* the number of concurrent calls
NumTasks == 2

Tasks == 1..NumTasks

\* the envelopes of the concurrent calls
ConcCommands ==
    { [NoCommand EXCEPT !.type = ListCommand, !.resource = "pods",
                        !.namespace = "ns"],
      [NoCommand EXCEPT !.type = SearchLogsCommand, !.namespace = "ns",
                        !.hasLogOptions = TRUE,
                        !.logOptions = [NoLogOptions EXCEPT !.pod = "p1",
                                                            !.container = "c",
                                                            !.pattern = PatternFail]],
      [NoCommand EXCEPT !.type = ExportLogsCommand, !.namespace = "ns",
                        !.hasLogOptions = TRUE,
                        !.logOptions = [NoLogOptions EXCEPT !.pod = "p1",
                                                            !.container = "c",
                                                            !.format = FormatJSON]] }

\* what the backend answers to a call: to its resource call or to the
\* opening of the stream, and the stream it sends
ConcStreams ==
    { [lines |-> <<LineError>>, frag |-> <<>>, fail |-> FALSE] }

ConcAnswers ==
    {[outcome |-> "error", stream |-> NoStream]}
    \cup {[outcome |-> "ok", stream |-> st] : st \in ConcStreams}

NoAnswer == [outcome |-> "ok", stream |-> NoStream]

IdleTask ==
    [pc |-> "idle", cmd |-> NoCommand, answer |-> NoAnswer, opts |-> NoOptions,
     resp |-> NoResponse, stream |-> NoStream, re |-> NoRegexp,
     logEntries |-> <<>>, ret |-> NoReturn, overlapped |-> FALSE]

\* the response of the handler of a resource command or of an unknown kind
ResourceResponse(c, outcome) ==
    LET d == Dispatch(c.type)
    IN  IF d = "handleListCommand" THEN handleListCommand(c, outcome).resp
        ELSE IF d = "handleGetCommand" THEN handleGetCommand(c, outcome).resp
        ELSE IF d = "handleCreateCommand" THEN handleCreateCommand(c, outcome).resp
        ELSE IF d = "handleDeleteCommand" THEN handleDeleteCommand(c, outcome).resp
        ELSE handleDefault(c).resp

IsLogHandler(d) ==
    d \in {"handleLogsCommand", "handleSearchLogsCommand", "handleExportLogsCommand"}

\* a log handler up to its call of GetLogs
PrepareFor(c, t) ==
    LET d == Dispatch(c.type)
    IN  IF d = "handleLogsCommand" THEN handleLogsPrepare(c, t)
        ELSE IF d = "handleSearchLogsCommand" THEN handleSearchLogsPrepare(c, t)
        ELSE handleExportLogsPrepare(c, t)

\* a log handler after GetLogs has returned r
FinishFor(c, r) ==
    LET d == Dispatch(c.type)
    IN  IF d = "handleLogsCommand" THEN handleLogsFinish(c, r)
        ELSE IF d = "handleSearchLogsCommand" THEN handleSearchLogsFinish(c, r)
        ELSE handleExportLogsFinish(c, r)

\* the loop of GetLogs run to its end
RECURSIVE ReadLoop(_, _, _, _, _)
ReadLoop(s, entries, o, rx, t) ==
    LET r == ReadTurn(s, entries, o, rx, t)
    IN  IF r.stop THEN r.ret ELSE ReadLoop(r.stream, r.entries, o, rx, t)

\* GetLogs(opts) run from its call to its return, the backend answering a
GetLogs(o, a, t) ==
    IF a.outcome = "error"
    THEN GetLogsReturn(<<>>, <<"error opening log stream: %v", BackendError>>)
    ELSE LET c == CompilePattern(o.pattern)
         IN  IF c.err # NoError THEN GetLogsReturn(<<>>, c.err)
             ELSE ReadLoop(a.stream, <<>>, o, c.re, t)

\* HandleCommand(cmd) run from its call to its return
HandleCommand(c, a, t) ==
    IF ~IsLogHandler(Dispatch(c.type)) THEN ResourceResponse(c, a.outcome)
    ELSE LET p == PrepareFor(c, t)
         IN  IF p.err # NoError THEN NewErrorResponse(p.err)
             ELSE FinishFor(c, GetLogs(p.opts, a, t))

\* the frame that holds the local variables the call i works on: its own
FrameSharedByAll(i) == 1

Frame(i) == i

InFlight(i) == tasks[i].pc \notin {"idle", "done"}

\* the call i takes a step while another call is in flight
Overlaps(i) == tasks[i].overlapped \/ \E j \in Tasks \ {i} : InFlight(j)

InitConc ==
    /\ pc = "idle"
    /\ cmd = NoCommand
    /\ opts = NoOptions
    /\ resp = NoResponse
    /\ calls = <<>>
    /\ stream = NoStream
    /\ streamOpen = FALSE
    /\ closes = 0
    /\ re = NoRegexp
    /\ logEntries = <<>>
    /\ reads = 0
    /\ ret = NoReturn
    /\ tasks = [i \in Tasks |-> IdleTask]
    /\ now = 0
    /\ pin = NoParseArgs
    /\ pout = NoParse

ConcFrame ==
    UNCHANGED <<pc, cmd, opts, resp, calls, stream, streamOpen, closes, re,
                logEntries, reads, ret, now, pin, pout>>

\* HandleCommand is called: a resource command is handled in one round trip;
\* a log command builds its options and goes on to GetLogs
TaskStart ==
    /\ \E i \in Tasks, c \in ConcCommands, a \in ConcAnswers :
          /\ tasks[i].pc = "idle"
          /\ LET base == [IdleTask EXCEPT !.cmd = c, !.answer = a,
                                          !.overlapped = Overlaps(i)]
                 p == PrepareFor(c, now)
             IN  tasks' = [tasks EXCEPT ![i] =
                    IF ~IsLogHandler(Dispatch(c.type))
                    THEN [base EXCEPT !.pc = "done",
                                      !.resp = ResourceResponse(c, a.outcome)]
                    ELSE IF p.err # NoError
                    THEN [base EXCEPT !.pc = "done",
                                      !.resp = NewErrorResponse(p.err)]
                    ELSE [base EXCEPT !.pc = "open", !.opts = p.opts]]
    /\ ConcFrame

\* GetLogs of the call i opens its stream
TaskOpen ==
    /\ \E i \in Tasks :
          /\ tasks[i].pc = "open"
          /\ tasks' = [tasks EXCEPT ![i] =
                IF tasks[i].answer.outcome = "error"
                THEN [@ EXCEPT !.pc = "ret", !.overlapped = Overlaps(i),
                               !.ret = GetLogsReturn(<<>>,
                                   <<"error opening log stream: %v", BackendError>>)]
                ELSE [@ EXCEPT !.pc = "compile", !.overlapped = Overlaps(i),
                               !.stream = tasks[i].answer.stream]]
    /\ ConcFrame

\* GetLogs of the call i compiles its pattern
TaskCompile ==
    /\ \E i \in Tasks :
          /\ tasks[i].pc = "compile"
          /\ LET c == CompilePattern(tasks[i].opts.pattern)
             IN  tasks' = [tasks EXCEPT ![i] =
                    IF c.err # NoError
                    THEN [@ EXCEPT !.pc = "ret", !.overlapped = Overlaps(i),
                                   !.ret = GetLogsReturn(<<>>, c.err)]
                    ELSE [@ EXCEPT !.pc = "read", !.overlapped = Overlaps(i),
                                   !.re = c.re]]
    /\ ConcFrame

\* GetLogs of the call i takes one turn of its loop, on the logEntries of its
\* frame
TaskRead ==
    /\ \E i \in Tasks :
          /\ tasks[i].pc = "read"
          /\ LET f == Frame(i)
                 r == ReadTurn(tasks[i].stream, tasks[f].logEntries,
                               tasks[i].opts, tasks[i].re, now)
                 kept == [tasks EXCEPT ![f].logEntries = r.entries]
             IN  tasks' = [kept EXCEPT ![i] =
                    IF r.stop
                    THEN [@ EXCEPT !.pc = "ret", !.overlapped = Overlaps(i),
                                   !.stream = r.stream, !.ret = r.ret]
                    ELSE [@ EXCEPT !.overlapped = Overlaps(i),
                                   !.stream = r.stream]]
    /\ ConcFrame

\* the log handler of the call i turns what GetLogs returned into the response
TaskFinish ==
    /\ \E i \in Tasks :
          /\ tasks[i].pc = "ret"
          /\ tasks' = [tasks EXCEPT ![i] =
                [@ EXCEPT !.pc = "done", !.overlapped = Overlaps(i),
                          !.resp = FinishFor(tasks[i].cmd, tasks[i].ret)]]
    /\ ConcFrame

NextConc ==
    \/ TaskStart
    \/ TaskOpen
    \/ TaskCompile
    \/ TaskRead
    \/ TaskFinish

SpecConc == InitConc /\ [][NextConc]_vars

(***************************************************************************)
(* Properties.                                                             *)
(***************************************************************************)
SupportedKinds ==
    {ListCommand, GetCommand, CreateCommand, DeleteCommand, LogsCommand,
     SearchLogsCommand, ExportLogsCommand}

LogKinds == {LogsCommand, SearchLogsCommand, ExportLogsCommand}

\* the envelope lacks a field its kind requires
LacksRequired(c) ==
    \/ c.type = ListCommand /\ c.resource = ""
    \/ c.type \in {GetCommand, DeleteCommand} /\ (c.resource = "" \/ c.name = "")
    \/ c.type = CreateCommand /\ (c.resource = "" \/ c.data.isNil)
    \/ c.type \in LogKinds
       /\ (c.namespace = "" \/ ~c.hasLogOptions \/ c.logOptions.pod = "")
    \/ c.type = SearchLogsCommand /\ c.logOptions.pattern = <<>>
    \/ c.type = ExportLogsCommand /\ c.logOptions.format = <<>>

\* the response is a failure: success=false, an error string, no data
IsFailure(r) ==
    /\ r.set
    /\ ~r.success
    /\ ~ErrorIsEmpty(r.error)
    /\ r.data = NoData

\* neither the resource store nor the log pipeline was called
NothingCalled == calls = <<>> /\ ~ret.set /\ reads = 0

\* C1: for every command kind, an envelope that lacks a field required for
\* that kind gets a failure response at once, and neither the resource store
\* nor the log pipeline is called.
C1_MissingFieldFails ==
    (pc # "idle" /\ LacksRequired(cmd)) =>
        (pc = "done" /\ IsFailure(resp) /\ NothingCalled)

C1_Witness ==
    /\ pc = "done"
    /\ cmd.type = ExportLogsCommand
    /\ cmd.namespace # ""
    /\ cmd.hasLogOptions
    /\ cmd.logOptions.pod # ""
    /\ cmd.logOptions.format = <<>>
    /\ IsFailure(resp)

\* the operation the command was routed to failed
OperationFailed ==
    \/ cmd.type \notin SupportedKinds
    \/ LacksRequired(cmd)
    \/ cmd.type \in {ListCommand, GetCommand, CreateCommand, DeleteCommand}
       /\ cmd.resource \notin DOMAIN resourceMap
    \/ cmd.type = CreateCommand /\ cmd.data.raw = <<"[", "]">>
    \/ \E i \in DOMAIN calls : calls[i].answer = "error"
    \/ cmd.type \in LogKinds /\ cmd.logOptions.since = DateTimeText
    \/ ret.set /\ ret.err # NoError
    \/ cmd.type = ExportLogsCommand /\ cmd.logOptions.format = FormatXml

\* C2: whatever the envelope and the backend's answers, HandleCommand ends
\* with a Response, and when the routed operation failed (unsupported kind,
\* backend error, stream open error, read error, invalid pattern, invalid
\* since, unsupported format) the Response has success=false, a non-empty
\* error and no data; whatever GetLogs returns, its handler takes it on.
C2_FailureIsReported ==
    /\ pc = "done" => resp.set
    /\ (pc = "done" /\ OperationFailed) => IsFailure(resp)
    /\ pc = "ret" => ENABLED (FinishLogs \/ FinishSearchLogs \/ FinishExportLogs)

C2_Witness ==
    /\ pc = "done"
    /\ cmd.type = ExportLogsCommand
    /\ ret.set
    /\ ret.err = NoError
    /\ cmd.logOptions.format = FormatXml
    /\ IsFailure(resp)

\* C3 as stated: every Response has exactly one of data and error populated.
C3_ExactlyOneOfDataAndError ==
    pc = "done" =>
        /\ resp.success => (resp.data # NoData /\ resp.error = NoError)
        /\ ~resp.success => (~ErrorIsEmpty(resp.error) /\ resp.data = NoData)

\* C3, amended: a failure response carries an error and no data; a success
\* response carries no error, and carries data unless the command is delete,
\* whose success response carries neither.
C3_AtMostOneOfDataAndError ==
    pc = "done" =>
        /\ resp.success =>
              /\ resp.error = NoError
              /\ (resp.data = NoData) <=> (cmd.type = DeleteCommand)
        /\ ~resp.success => (~ErrorIsEmpty(resp.error) /\ resp.data = NoData)

C3_Witness ==
    /\ pc = "done"
    /\ cmd.type = DeleteCommand
    /\ resp.success
    /\ resp.data = NoData
    /\ resp.error = NoError

\* C4: a command whose kind is none of the seven (the empty kind included)
\* gets a failure response naming the unsupported command, and neither the
\* resource store nor the log pipeline is called.
C4_UnsupportedKindFails ==
    (pc # "idle" /\ cmd.type \notin SupportedKinds) =>
        /\ pc = "done"
        /\ IsFailure(resp)
        /\ resp.error = <<"unsupported command type: %s", cmd.type>>
        /\ NothingCalled

C4_Witness ==
    /\ pc = "done"
    /\ cmd.type = ""
    /\ cmd.resource = "pods"
    /\ IsFailure(resp)

\* the stream of this request was opened by the backend
StreamWasOpened == calls # <<>> /\ calls[Len(calls)].op = "Stream"
                   /\ calls[Len(calls)].answer = "ok"

\* the stream the backend sent
SentStream == calls[Len(calls)].body

\* C5: in GetLogs, a non-empty pattern that is no valid regular expression
\* makes the retrieval fail with the invalid-pattern error before any line is
\* read from the stream, and no entry is returned.
C5_InvalidPatternFailsFast ==
    (StreamWasOpened /\ pc # "compile" /\ opts.pattern = PatternOpen) =>
        /\ pc \in {"ret", "done"}
        /\ ret.set
        /\ ret.err = <<"invalid regex pattern: %v", opts.pattern>>
        /\ ret.entries = <<>>
        /\ reads = 0
        /\ stream = SentStream

C5_Witness ==
    /\ pc = "ret"
    /\ StreamWasOpened
    /\ opts.pattern = PatternOpen
    /\ Len(stream.lines) = MaxLines
    /\ ret.err # NoError

\* a read of the stream failed with an error other than end-of-stream
ReadFailed ==
    /\ StreamWasOpened
    /\ pc \in {"ret", "done"}
    /\ reads > 0
    /\ SentStream.fail

\* C6: in GetLogs, when a read of the stream fails with an error other than
\* end-of-stream, after any number of lines were read and accepted, the
\* retrieval returns an error and no entry.
C6_ReadErrorReturnsNothing ==
    ReadFailed =>
        /\ ret.set
        /\ ret.err # NoError
        /\ ret.err[1] = "error reading logs: %v"
        /\ ret.entries = <<>>

C6_Witness ==
    /\ ReadFailed
    /\ Len(logEntries) = MaxLines
    /\ ret.entries = <<>>
    /\ ret.err # NoError

\* every line of a stream: those that end with a newline, then the one after
\* the last newline when there is one
AllLines(s) ==
    [i \in DOMAIN s.lines |-> s.lines[i] \o <<"\n">>]
    \o (IF s.frag # <<>> THEN <<s.frag>> ELSE <<>>)

\* the entry of a line is dropped by the pattern or by the log level
Dropped(entry, o) ==
    \/ o.pattern # <<>> /\ ~Contains(entry.message, PatternLiteral(o.pattern))
    \/ o.logLevel # <<>> /\ ToUpper(entry.logLevel) # ToUpper(o.logLevel)

\* the entries of all lines of a stream, in order, without the dropped ones
ExpectedEntries(s, o, t) ==
    SelectSeq([i \in DOMAIN AllLines(s) |->
                   parseLogEntry(AllLines(s)[i], o.pod, o.container, o.namespace, t)],
              LAMBDA e : ~Dropped(e, o))

\* C7 as stated: for a stream that ends without a read error, whether or not
\* its last line ends with a newline, GetLogs returns exactly the entries of
\* all lines of the stream, in order, without those the pattern or the log
\* level drops.
C7_ReturnsEveryLine ==
    (StreamWasOpened /\ pc \in {"ret", "done"} /\ ret.err = NoError) =>
        ret.entries = ExpectedEntries(SentStream, opts, now)

\* the line holds a date-time YYYY-MM-DDTHH:MM:SS at position i
DateTimeAt(line, i) ==
    /\ i + 18 <= Len(line)
    /\ \A j \in 0..18 :
          IF j \in {4, 7} THEN line[i + j] = "-"
          ELSE IF j = 10 THEN line[i + j] = "T"
          ELSE IF j \in {13, 16} THEN line[i + j] = ":"
          ELSE line[i + j] \in Digits

\* C8 as stated: parseLogEntry on a line that holds a date-time of the form
\* YYYY-MM-DDTHH:MM:SS yields that date-time as the timestamp, not the wall
\* clock; on a line without one it yields the wall clock of the parse.
C8_TimestampFromLine ==
    pout.done =>
        LET line == pin.line
            at == {i \in DOMAIN line : DateTimeAt(line, i)}
        IN  IF at = {}
            THEN pout.entry.timestamp = ClockTime(pout.at)
            ELSE /\ pout.entry.timestamp.src = "parsed"
                 /\ \E i \in at : pout.entry.timestamp.text = SubSeq(line, i, i + 18)

\* word w occurs in line at position i, whatever the case of the letters, as
\* a whole word
WholeWordAt(line, w, i) ==
    /\ i + Len(w) - 1 <= Len(line)
    /\ \A j \in DOMAIN w : line[i + j - 1] \in {w[j], UpperOf[w[j]]}
    /\ (i = 1 \/ ~IsWordChar(line[i - 1]))
    /\ (i + Len(w) > Len(line) \/ ~IsWordChar(line[i + Len(w)]))

\* m is line without its leading and trailing white space
IsTrimOf(m, line) ==
    \E i \in 1..(Len(line) + 1) :
        /\ i + Len(m) - 1 <= Len(line)
        /\ \A j \in DOMAIN m : m[j] = line[i + j - 1]
        /\ \A j \in DOMAIN line :
              (j < i \/ j >= i + Len(m)) => IsSpace(line[j])
        /\ m # <<>> => (~IsSpace(m[1]) /\ ~IsSpace(m[Len(m)]))

\* C9: parseLogEntry fails for no line; logLevel is the upper-cased leftmost
\* whole-word occurrence, in any case, of info, error, warn, debug or fatal,
\* or empty when the line has none; message is the line without leading and
\* trailing white space; pod, container and namespace are the arguments.
C9_ParseLogEntry ==
    pout.done =>
          LET line == pin.line
              e == pout.entry
              words == Range(LevelWords)
              at == {i \in DOMAIN line : \E w \in words : WholeWordAt(line, w, i)}
          IN  /\ e.pod = pin.pod
              /\ e.container = pin.container
              /\ e.namespace = pin.namespace
              /\ IsTrimOf(e.message, line)
              /\ at = {} => e.logLevel = <<>>
              /\ at # {} =>
                    \E i \in at, w \in words :
                        /\ \A j \in at : i <= j
                        /\ WholeWordAt(line, w, i)
                        /\ e.logLevel = [j \in DOMAIN w |-> UpperOf[w[j]]]

C9_Witness ==
    /\ pout.done
    /\ pin.line = <<" ">> \o <<"W","a","r","n">> \o <<"\n">>
    /\ pout.entry.logLevel = <<"W","A","R","N">>
    /\ pout.entry.message = <<"W","a","r","n">>

\* C10 as stated: a log command that fails validation because of a bad
\* pattern, an unrecognized export format or an unparsable since value fails
\* without any call to the backend: no log stream is opened.
C10_ValidationBeforeBackend ==
    (/\ pc = "done"
     /\ cmd.type \in LogKinds
     /\ ~resp.success
     /\ resp.error # NoError
     /\ resp.error[1] \in {"invalid regex pattern: %v",
                           "unsupported export format: %s",
                           "invalid 'since' parameter: %v"}) =>
        calls = <<>>

\* the format, whatever its letter-case, is the name
SameIgnoringCase(format, name) ==
    /\ Len(format) = Len(name)
    /\ \A i \in DOMAIN name : format[i] \in {name[i], UpperOf[name[i]]}

SerializerNames == ExportFormats

IsSupportedFormat(format) ==
    \E name \in SerializerNames : SameIgnoringCase(format, name)

IsPlaintextFormat(format) ==
    \/ SameIgnoringCase(format, <<"p","l","a","i","n","t","e","x","t">>)
    \/ SameIgnoringCase(format, <<"t","e","x","t">>)

\* C11: ExportLogs selects the serializer by the format compared without
\* regard to letter-case: json, csv, ndjson, plaintext and text succeed (on a
\* writer that does not fail) in every letter-case, plaintext and text both
\* writing the plaintext lines of the entries; every other format, the empty
\* one included, fails with the unsupported-format error and writes nothing.
C11_FormatSelection ==
    pout.done =>
        /\ (IsSupportedFormat(pin.format) /\ ~pin.writer.limited)
               => pout.err = NoError
        /\ (IsPlaintextFormat(pin.format) /\ ~pin.writer.limited)
               => pout.written = [i \in DOMAIN pin.entries.items |->
                                      PlaintextLine(pin.entries.items[i])]
        /\ ~IsSupportedFormat(pin.format)
               => /\ pout.err = <<"unsupported export format: %s", pin.format>>
                  /\ pout.written = <<>>

C11_Witness ==
    /\ pout.done
    /\ pin.format = <<"T","e","X","t">>
    /\ ~pin.writer.limited
    /\ Len(pin.entries.items) = 2
    /\ pout.err = NoError
    /\ Len(pout.written) = 2

(***************************************************************************)
(* Reading an export back: a JSON reader applied to what was written.      *)
(***************************************************************************)

\* the characters a JSON string stands for
RECURSIVE JsonUnescapeAll(_)
JsonUnescapeAll(s) ==
    IF s = <<>> THEN <<>>
    ELSE IF Head(s) # "\\" THEN <<Head(s)>> \o JsonUnescapeAll(Tail(s))
    ELSE IF s[2] = "n" THEN <<"\n">> \o JsonUnescapeAll(SubSeq(s, 3, Len(s)))
    ELSE IF s[2] = "u" /\ SubSeq(s, 3, 6) = <<"f", "f", "f", "d">>
    THEN <<ReplacementChar>> \o JsonUnescapeAll(SubSeq(s, 7, Len(s)))
    ELSE <<s[2]>> \o JsonUnescapeAll(SubSeq(s, 3, Len(s)))

ReadJsonString(js) == JsonUnescapeAll(SubSeq(js, 2, Len(js) - 1))

ReadName(js) == js[2]

\* the instant a quoted RFC3339Nano text stands for
ReadTime(js) ==
    [src  |-> js[3],
     at   |-> CHOOSE n \in 0..(MaxClock + 1) : ToString(n) = js[4],
     text |-> SubSeq(js, 5, Len(js) - 1)]

HasMember(obj, name) == \E i \in DOMAIN obj : obj[i][1] = name

Member(obj, name) == obj[CHOOSE i \in DOMAIN obj : obj[i][1] = name][2]

\* the LogEntry a JSON object is decoded into; a missing level stays empty
ReadEntry(obj) ==
    [timestamp |-> ReadTime(Member(obj, "timestamp")),
     message   |-> ReadJsonString(Member(obj, "message")),
     pod       |-> ReadName(Member(obj, "pod")),
     container |-> ReadName(Member(obj, "container")),
     namespace |-> ReadName(Member(obj, "namespace")),
     logLevel  |-> IF HasMember(obj, "level")
                   THEN ReadJsonString(Member(obj, "level")) ELSE <<>>]

\* the entries a json export decodes into: one document, null or an array
ReadJson(written) ==
    LET doc == written[1][1]
    IN  IF doc = JsonNull THEN <<>>
        ELSE [i \in DOMAIN doc[2] |-> ReadEntry(doc[2][i])]

\* the entries an ndjson export decodes into: one object per line
ReadNdjson(written) == [i \in DOMAIN written |-> ReadEntry(written[i][1])]

IsJson(format) == SameIgnoringCase(format, <<"j","s","o","n">>)

IsNdjson(format) == SameIgnoringCase(format, <<"n","d","j","s","o","n">>)

ReadBack == IF IsJson(pin.format) THEN ReadJson(pout.written)
            ELSE ReadNdjson(pout.written)

RoundTripCase ==
    /\ pout.done
    /\ IsJson(pin.format) \/ IsNdjson(pin.format)
    /\ pout.err = NoError

\* C12 as stated: a json or ndjson export read back is the input, entry by
\* entry and field by field, for every sequence of entries.
C12_RoundTrip == RoundTripCase => ReadBack = pin.entries.items

\* a string with every byte that is not valid UTF-8 replaced by U+FFFD
Utf8Coerced(str) ==
    [i \in DOMAIN str |-> IF str[i] = InvalidByte THEN ReplacementChar ELSE str[i]]

CoercedEntry(e) ==
    [e EXCEPT !.message = Utf8Coerced(@), !.logLevel = Utf8Coerced(@)]

\* C12 amended: a json or ndjson export that succeeded, read back, is the
\* input entry by entry and field by field, except that the bytes of a
\* string that are not valid UTF-8 come back as U+FFFD.
C12_RoundTripUpToUtf8 ==
    RoundTripCase =>
        ReadBack = [i \in DOMAIN pin.entries.items |->
                        CoercedEntry(pin.entries.items[i])]

C12_Witness ==
    /\ RoundTripCase
    /\ IsNdjson(pin.format)
    /\ Len(pin.entries.items) = 2
    /\ pin.entries.items[1].logLevel = <<>>
    /\ pin.entries.items[2].message = <<"x", InvalidByte>>
    /\ ReadBack[2].message = <<"x", ReplacementChar>>
    /\ ReadBack[1] = pin.entries.items[1]

\* the eleven kinds of the table with the triple of each
TableOfKinds ==
    { <<"pods", "", "v1">>, <<"services", "", "v1">>,
      <<"deployments", "apps", "v1">>, <<"namespaces", "", "v1">>,
      <<"configmaps", "", "v1">>, <<"secrets", "", "v1">>,
      <<"persistentvolumes", "", "v1">>,
      <<"persistentvolumeclaims", "", "v1">>,
      <<"statefulsets", "apps", "v1">>, <<"daemonsets", "apps", "v1">>,
      <<"ingresses", "networking.k8s.io", "v1">> }

Resolved(r) == r.set /\ r.args.op = "resolve"

\* C13: getGroupVersionResource resolves a kind by exact, case-sensitive
\* match against the table of eleven kinds: "pods" gives ("", "v1", "pods"),
\* every kind of the table gives its triple, every other string ("Pods", "",
\* "not-a-kind") fails with the unsupported-kind error, and a string resolved
\* twice in a row, or after a call of another kind, gives the same result.
C13_ExactKindLookup ==
    /\ Cardinality(TableOfKinds) = 11
    /\ Resolved(pout[2]) =>
          LET k == pout[2].args.resourceType
              rows == {row \in TableOfKinds : row[1] = k}
          IN  /\ k = "pods" => (pout[2].gvr = <<"", "v1", "pods">>
                                /\ pout[2].err = NoError)
              /\ \A row \in rows : /\ pout[2].gvr = <<row[2], row[3], row[1]>>
                                   /\ pout[2].err = NoError
              /\ rows = {} =>
                    /\ pout[2].err = <<"unsupported resource type: %s", k>>
                    /\ pout[2].gvr = NoGVR
    /\ (Resolved(pout[1]) /\ Resolved(pout[2])
        /\ pout[1].args.resourceType = pout[2].args.resourceType)
           => (pout[1].gvr = pout[2].gvr /\ pout[1].err = pout[2].err)

C13_Witness ==
    /\ Resolved(pout[1])
    /\ pout[1].args.resourceType = "pods"
    /\ pout[1].err = NoError
    /\ Resolved(pout[2])
    /\ pout[2].args.resourceType = "Pods"
    /\ pout[2].err # NoError

\* GetLogs has returned to the log handler
GetLogsReturned == pc \in {"ret", "done"} /\ ret.set

\* C14: once the log stream was opened it is closed exactly once before
\* GetLogs returns, whether GetLogs ends at the end of the stream, on an
\* invalid pattern or on a read error, and not before; when the opening fails
\* or was not reached, no stream is open and none was closed.
C14_StreamClosedOnce ==
    /\ (StreamWasOpened /\ GetLogsReturned) => (closes = 1 /\ ~streamOpen)
    /\ (StreamWasOpened /\ ~GetLogsReturned) => (closes = 0 /\ streamOpen)
    /\ ~StreamWasOpened => (closes = 0 /\ ~streamOpen)

\* the three exits of GetLogs after the opening, and the failed opening
C14_Witness ==
    /\ pc = "ret"
    /\ StreamWasOpened
    /\ closes = 1
    /\ ~streamOpen
    /\ ret.err = <<"invalid regex pattern: %v", opts.pattern>>

\* C15: when several commands are handled concurrently by one Handler, under
\* every interleaving the response of each command is the response it gets
\* when it is handled alone against the same answers of the backend.
C15_ResponseAsIfAlone ==
    \A i \in Tasks :
        tasks[i].pc = "done" =>
            tasks[i].resp = HandleCommand(tasks[i].cmd, tasks[i].answer, now)

C15_Witness ==
    /\ \A i \in Tasks : tasks[i].pc = "done" /\ tasks[i].overlapped
    /\ tasks[1].cmd.type = SearchLogsCommand
    /\ tasks[1].resp.success
    /\ Len(tasks[1].logEntries) = 1
    /\ tasks[2].cmd.type = ExportLogsCommand
    /\ tasks[2].resp.success
    /\ Len(tasks[2].logEntries) = 1

\* the entries GetLogs returned all pass the filters the envelope asks for
PassesEnvelopeFilters(lo) ==
    \A i \in DOMAIN ret.entries :
        /\ lo.pattern # <<>> => Contains(ret.entries[i].message, lo.pattern)
        /\ lo.logLevel # <<>> => EqualFold(ret.entries[i].logLevel, lo.logLevel)

\* C16 as stated: for logs, search_logs and export_logs alike, the pattern and
\* the log_level of the envelope's log_options are applied: no entry that
\* fails either is part of the result, and an invalid pattern makes the
\* command fail.
C16_EnvelopeFiltersApplied ==
    (pc = "done" /\ cmd.type \in LogKinds /\ ret.set) =>
        /\ (cmd.logOptions.pattern # <<>> /\ ~RegexpCompileOk(cmd.logOptions.pattern))
               => IsFailure(resp)
        /\ ret.err = NoError => PassesEnvelopeFilters(cmd.logOptions)

\* the request that opened, or tried to open, the log stream
StreamRequested == calls # <<>> /\ calls[Len(calls)].op = "Stream"

\* C17 as stated: the log-fetch request never carries both an absolute
\* since-time and a relative since-seconds: with both set in the LogOptions
\* it carries only the absolute time, with one set it carries that one, with
\* neither it carries neither.
C17_OneSinceInRequest ==
    StreamRequested =>
        LET q == calls[Len(calls)].logOptions
        IN  /\ ~(q.hasSinceTime /\ q.hasSinceSeconds)
            /\ q.hasSinceTime = opts.hasSinceTime
            /\ q.hasSinceTime => q.sinceTime = opts.sinceTime
            /\ q.hasSinceSeconds = (opts.hasSinceSeconds /\ ~opts.hasSinceTime)
            /\ q.hasSinceSeconds => q.sinceSeconds = opts.sinceSeconds

\* the method of the dynamic client each method of Client calls
BackendOpOf == [get |-> "Get", list |-> "List", create |-> "Create", delete |-> "Delete"]

\* the backend error wrapped with the kind, and the name for get and delete
WrappedError(a) ==
    IF a.op = "get"
    THEN <<"failed to get %s '%s': %v", a.resourceType, a.name, BackendError>>
    ELSE IF a.op = "list"
    THEN <<"failed to list %s: %v", a.resourceType, BackendError>>
    ELSE IF a.op = "create"
    THEN <<"failed to create %s: %v", a.resourceType, BackendError>>
    ELSE <<"failed to delete %s '%s': %v", a.resourceType, a.name, BackendError>>

\* C18: GetResource, ListResources, CreateResource and DeleteResource resolve
\* the kind before any backend call: for an unsupported kind no backend call
\* is made and the resolver's error is returned as it is; for a supported
\* kind exactly one backend call is made, namespaced when the namespace is
\* non-empty and cluster-scoped when it is empty, also when the backend
\* answers with an error, which is returned wrapped with the kind (and the
\* name, for get and delete).
C18_ResolveThenOneCall ==
    (pout[2].set /\ pout[2].args.op \in DOMAIN BackendOpOf) =>
        LET a == pout[2].args
            rows == {row \in TableOfKinds : row[1] = a.resourceType}
        IN  /\ rows = {} =>
                  /\ pout[2].calls = <<>>
                  /\ pout[2].err = <<"unsupported resource type: %s", a.resourceType>>
            /\ rows # {} =>
                  /\ Len(pout[2].calls) = 1
                  /\ pout[2].calls[1].op = BackendOpOf[a.op]
                  /\ \A row \in rows :
                        pout[2].calls[1].gvr = <<row[2], row[3], row[1]>>
                  /\ pout[2].calls[1].namespaced = (a.namespace # "")
                  /\ pout[2].calls[1].namespace = a.namespace
                  /\ pout[2].err = IF a.outcome = "error" THEN WrappedError(a)
                                   ELSE NoError

C18_Witness ==
    /\ pout[2].set
    /\ pout[2].args.op = "delete"
    /\ pout[2].args.resourceType = "namespaces"
    /\ pout[2].args.namespace = ""
    /\ pout[2].args.outcome = "error"
    /\ Len(pout[2].calls) = 1
    /\ ~pout[2].calls[1].namespaced
    /\ pout[2].err # NoError

\* C19 as stated: ExportLogs returns an error whenever a write to the writer
\* failed, for every format and every sequence of entries, a csv export held
\* in the buffer of the CSV writer until the final flush included.
C19_WriteFailureIsReturned ==
    (pout.done /\ pout.failures > 0) => pout.err # NoError

\* what the response of a successful export_logs command carries as
\* exported_logs: the chunks written to the buffer
ExportedLogs == resp.data[2][2]

\* C20 as stated: an export with format json emits exactly one JSON array
\* holding one object per entry in input order, also for the empty result
\* GetLogs returns when no line is kept: an empty array and no other value.
C20_JsonExportIsOneArray ==
    (/\ pc = "done"
     /\ cmd.type = ExportLogsCommand
     /\ resp.success
     /\ IsJson(cmd.logOptions.format)) =>
        /\ Len(ExportedLogs) = 1
        /\ LET doc == ExportedLogs[1][1]
           IN  /\ doc[1] = "array"
               /\ Len(doc[2]) = Len(ret.entries)
               /\ \A i \in DOMAIN ret.entries : ReadEntry(doc[2][i]) = ret.entries[i]

====
